---------------------------- MODULE Spec2Model ----------------------------
(***************************************************************************)
(* Model of the movie-recommendation experiment (app.py, system_a.py).     *)
(*                                                                         *)
(* System A is a Streamlit script: every user interaction re-runs main()   *)
(* from the top against st.session_state.  One action of this model is one *)
(* script run: either a run in which no widget is pressed (it renders the  *)
(* current step and executes the step's automatic logic), or a run in      *)
(* which one of the buttons displayed by the previous run is pressed.  A   *)
(* run ends either by falling off the end of the handler (the page then    *)
(* waits for the user: pc = "idle") or in st.rerun(), which schedules the  *)
(* next run immediately (pc = "run").  st.rerun() raises a control-flow    *)
(* exception derived from BaseException, so the handlers'                  *)
(* "except Exception" clauses do not intercept it.                         *)
(***************************************************************************)
EXTENDS Integers, Sequences, FiniteSets, TLC

\* ------------------------------------------------------------- bounds
\* Longest list the persona oracle returns.
MaxOracleList == 2
\* Most answers submitted in one session (cap on the question loop).
MaxQuestions == 2
\* The change button is pressed only while fewer dimensions than this are used.
MaxDiscardDepth == 2

\* ------------------------------------------------- program constants
\* result[:5]
MaxProfiles == 5
\* target_len = 7, the number of scale_definitions
NumScales == 7
\* safe_llm_call(chain, inputs, max_retries=2)
max_retries == 2
\* the neutral score substituted for a missing or non-numeric score
DefaultScore == 5
MinScore == 1
MaxScore == 10
\* eliminated_id default when the oracle's id is missing or not an integer
DefaultEliminatedId == 1
MaxLiked == 10
MaxDisliked == 5

\* ------------------------------------------------------------ helpers
\* An optional value: None is the empty sequence, a value x is <<x>>.
None == <<>>
Some(x) == <<x>>
EmptyDict == <<>>

DictGet(d, k, default) == IF k \in DOMAIN d THEN d[k] ELSE default

Range(s) == {s[i] : i \in DOMAIN s}

RECURSIVE SelectSeqBy(_, _)
\* [x for x in s if Keep[x]] with Keep given as the set of kept elements
SelectSeqBy(s, keep) ==
  IF s = <<>> THEN <<>>
  ELSE (IF Head(s) \in keep THEN <<Head(s)>> ELSE <<>>) \o SelectSeqBy(Tail(s), keep)

Prefix(s, n) == SubSeq(s, 1, IF Len(s) < n THEN Len(s) ELSE n)

Min2(a, b) == IF a < b THEN a ELSE b
Max2(a, b) == IF a > b THEN a ELSE b


\* --------------------------------------------------- Oracle Gateway
\* safe_llm_call: `failures` is the number of leading attempts on which
\* chain.invoke raises, `response` what the first successful attempt returns.
RECURSIVE llm_attempt(_, _, _)
llm_attempt(attempt, failures, response) ==
  IF attempt >= max_retries
    THEN [raised |-> FALSE, value |-> [t |-> "null"], attempts |-> attempt]
  ELSE IF attempt >= failures
    THEN [raised |-> FALSE, value |-> response, attempts |-> attempt + 1]
  ELSE IF attempt < max_retries - 1
    THEN llm_attempt(attempt + 1, failures, response)
  ELSE [raised |-> TRUE, value |-> [t |-> "null"], attempts |-> attempt + 1]

\* A gateway that returns null after the last failed attempt instead of
\* raising.
safe_llm_call_swallowing(failures, response) ==
  IF failures >= max_retries
    THEN [raised |-> FALSE, value |-> [t |-> "null"], attempts |-> max_retries]
    ELSE llm_attempt(0, failures, response)

safe_llm_call(failures, response) == llm_attempt(0, failures, response)

\* In the flow the first attempt succeeds or every attempt fails.
Failures == {0, max_retries}

\* ------------------------------------------------------ step 1: intake
\* The text areas are sequences of characters over this alphabet.
Separators == {",", "\n"}
Whitespace == {" ", "\n"}

RECURSIVE LStrip(_)
LStrip(s) == IF s # <<>> /\ Head(s) \in Whitespace THEN LStrip(Tail(s)) ELSE s

RECURSIVE RStrip(_)
RStrip(s) ==
  IF s # <<>> /\ s[Len(s)] \in Whitespace THEN RStrip(SubSeq(s, 1, Len(s) - 1)) ELSE s

\* str.strip()
Strip(s) == RStrip(LStrip(s))

RECURSIVE SplitFrom(_, _)
\* re.split(r'[,\n]', text): `cur` is the piece being read
SplitFrom(text, cur) ==
  IF text = <<>> THEN <<cur>>
  ELSE IF Head(text) \in Separators THEN <<cur>> \o SplitFrom(Tail(text), <<>>)
  ELSE SplitFrom(Tail(text), Append(cur, Head(text)))

ReSplit(text) == SplitFrom(text, <<>>)

RECURSIVE CollectItems(_, _)
\* for item in pieces: clean = item.strip(); if clean and clean not in acc: append
CollectItems(pieces, acc) ==
  IF pieces = <<>> THEN acc
  ELSE LET clean_item == Strip(Head(pieces))
       IN  CollectItems(Tail(pieces),
             IF clean_item # <<>> /\ clean_item \notin Range(acc)
               THEN Append(acc, clean_item) ELSE acc)

\* an intake that keeps the last entries when there are too many
ParseMoviesFromEnd(text, cap) ==
  LET movies == CollectItems(ReSplit(text), <<>>)
  IN  IF Len(movies) > cap THEN SubSeq(movies, Len(movies) - cap + 1, Len(movies)) ELSE movies

ParseMovies(text, cap) ==
  LET movies == CollectItems(ReSplit(text), <<>>)
  IN  IF Len(movies) > cap THEN SubSeq(movies, 1, cap) ELSE movies

\* ------------------------------------------ step 2: persona generation
\* for i, profile in enumerate(result[:5]): profile["profile_id"] = i + 1
\* Item assignment raises TypeError on an element that is not an object.
\* persona generation that takes the whole list
BuildProfilesUncapped(items) ==
  IF \E i \in DOMAIN items : items[i].t # "dict"
    THEN [raised |-> TRUE, profiles |-> <<>>]
    ELSE [raised |-> FALSE,
          profiles |-> [i \in DOMAIN items |->
                          [profile_id |-> i, basic_info |-> items[i].v]]]

BuildProfiles(items) ==
  LET head == Prefix(items, MaxProfiles)
  IN  IF \E i \in DOMAIN head : head[i].t # "dict"
        THEN [raised |-> TRUE, profiles |-> <<>>]
        ELSE [raised |-> FALSE,
              profiles |-> [i \in DOMAIN head |->
                              [profile_id |-> i, basic_info |-> head[i].v]]]

SampleProfiles ==
  << [profile_id |-> 1, basic_info |-> "sample1"],
     [profile_id |-> 2, basic_info |-> "sample2"] >>

\* ------------------------------------------------- step 3: scoring
\* int(score): an int as is, a bool as 0 or 1, a float truncated toward
\* zero (given in tenths), a numeric string parsed; anything else raises.
PyInt(e) ==
  CASE e.t = "int"    -> [raised |-> FALSE, v |-> e.v]
    [] e.t = "bool"   -> [raised |-> FALSE, v |-> IF e.v THEN 1 ELSE 0]
    [] e.t = "float"  -> [raised |-> FALSE,
                          v |-> IF e.v >= 0 THEN e.v \div 10 ELSE -((-e.v) \div 10)]
    [] e.t = "numstr" -> [raised |-> FALSE, v |-> e.v]
    [] OTHER          -> [raised |-> TRUE, v |-> 0]

\* A variant of ValidScore without max(1, min(10, ...)).
ValidScoreUnclamped(e) ==
  LET n == PyInt(e)
  IN  IF n.raised THEN DefaultScore ELSE n.v

\* valid_scores.append(max(1, min(10, int(score)))), or 5 when int() raises
ValidScore(e) ==
  LET n == PyInt(e)
  IN  IF n.raised THEN DefaultScore ELSE Max2(MinScore, Min2(MaxScore, n.v))

NoDetail == "no_detail"
AnalysisFailed == "analysis_failed"

Repeat(x, n) == [i \in 1..n |-> x]

PadTo(s, n, x) == IF Len(s) < n THEN s \o Repeat(x, n - Len(s)) ELSE s

FallbackAnalysis(profile) ==
  [profile_id |-> profile.profile_id,
   scores |-> Repeat(DefaultScore, NumScales),
   explanations |-> Repeat(AnalysisFailed, NumScales)]

\* The body of the per-persona try block.  `call` is safe_llm_call's outcome.
\* A JSON value is [t |-> type, v |-> content]; result.get(key, []) on a
\* missing key yields the empty list.
NormalizeAnalysis(call, profile) ==
  IF call.raised \/ call.value.t # "dict" THEN FallbackAnalysis(profile)
  ELSE
    LET result     == call.value.v
        raw_scores == DictGet(result, "scores", [t |-> "list", v |-> <<>>])
        raw_expl   == DictGet(result, "explanations", [t |-> "list", v |-> <<>>])
    IN  IF raw_scores.t \notin {"list", "dict", "str"}
          \* for score in raw_scores: TypeError, caught by the outer except
          THEN FallbackAnalysis(profile)
          ELSE
            LET valid_scores == [i \in DOMAIN raw_scores.v |-> ValidScore(raw_scores.v[i])]
                explanations == IF raw_expl.t \in {"list", "dict"}
                                  THEN raw_expl.v
                                  ELSE Repeat(NoDetail, NumScales)
            IN  [profile_id |-> profile.profile_id,
                 scores |-> Prefix(PadTo(valid_scores, NumScales, DefaultScore), NumScales),
                 explanations |-> Prefix(PadTo(explanations, NumScales, NoDetail), NumScales)]

\* ------------------------------------------- step 4: question selector
RECURSIVE SumSeq(_)
SumSeq(s) == IF s = <<>> THEN 0 ELSE Head(s) + SumSeq(Tail(s))

Scales == 0..(NumScales - 1)

\* scores_array[:, d]
Column(analysis, d) == [i \in DOMAIN analysis |-> analysis[i].scores[d + 1]]

\* ---- binary64 arithmetic, as NumPy performs it
\* A natural number of any size is the sequence of its digits in base
\* LimbBase, least significant first, without leading zeros.
LimbBits == 15
LimbBase == 32768
\* the precision of a binary64 significand
Mantissa == 53
\* quotients are computed to this many extra bits before they are rounded
GuardBits == 64

RECURSIVE Pow2(_)
Pow2(k) == IF k = 0 THEN 1 ELSE 2 * Pow2(k - 1)

RECURSIVE BNat(_)
BNat(n) == IF n = 0 THEN <<>> ELSE <<n % LimbBase>> \o BNat(n \div LimbBase)

RECURSIVE BNorm(_)
BNorm(a) ==
  IF a # <<>> /\ a[Len(a)] = 0 THEN BNorm(SubSeq(a, 1, Len(a) - 1)) ELSE a

RECURSIVE BAddC(_, _, _)
BAddC(a, b, c) ==
  IF a = <<>> /\ b = <<>> THEN (IF c = 0 THEN <<>> ELSE <<c>>)
  ELSE LET x == (IF a = <<>> THEN 0 ELSE Head(a)) + (IF b = <<>> THEN 0 ELSE Head(b)) + c
       IN  <<x % LimbBase>>
             \o BAddC(IF a = <<>> THEN <<>> ELSE Tail(a),
                      IF b = <<>> THEN <<>> ELSE Tail(b), x \div LimbBase)

BAdd(a, b) == BNorm(BAddC(a, b, 0))

RECURSIVE BSubC(_, _, _)
\* a - b for a >= b
BSubC(a, b, c) ==
  IF a = <<>> THEN <<>>
  ELSE LET x == Head(a) - (IF b = <<>> THEN 0 ELSE Head(b)) - c
       IN  <<(x + LimbBase) % LimbBase>>
             \o BSubC(Tail(a), IF b = <<>> THEN <<>> ELSE Tail(b), IF x < 0 THEN 1 ELSE 0)

BSub(a, b) == BNorm(BSubC(a, b, 0))

RECURSIVE BCmpFrom(_, _, _)
BCmpFrom(a, b, i) ==
  IF i = 0 THEN 0
  ELSE IF a[i] # b[i] THEN (IF a[i] < b[i] THEN -1 ELSE 1)
  ELSE BCmpFrom(a, b, i - 1)

\* -1, 0 or 1 as a < b, a = b or a > b
BCmp(a, b) ==
  IF Len(a) # Len(b) THEN (IF Len(a) < Len(b) THEN -1 ELSE 1)
  ELSE BCmpFrom(a, b, Len(a))

RECURSIVE BMulSmallC(_, _, _)
BMulSmallC(a, m, c) ==
  IF a = <<>> THEN (IF c = 0 THEN <<>> ELSE <<c>>)
  ELSE LET x == Head(a) * m + c
       IN  <<x % LimbBase>> \o BMulSmallC(Tail(a), m, x \div LimbBase)

\* a * m for 0 <= m < LimbBase
BMulSmall(a, m) == IF m = 0 THEN <<>> ELSE BMulSmallC(a, m, 0)

RECURSIVE BMul(_, _)
BMul(a, b) ==
  IF a = <<>> \/ b = <<>> THEN <<>>
  ELSE BAdd(BMulSmall(a, Head(b)),
            IF Tail(b) = <<>> THEN <<>> ELSE <<0>> \o BMul(a, Tail(b)))

RECURSIVE BDivSmallFrom(_, _, _, _)
\* long division by n < LimbBase, from the most significant digit down
BDivSmallFrom(a, n, i, r) ==
  IF i = 0 THEN [q |-> <<>>, r |-> r]
  ELSE LET cur  == r * LimbBase + a[i]
           rest == BDivSmallFrom(a, n, i - 1, cur % n)
       IN  [q |-> Append(rest.q, cur \div n), r |-> rest.r]

BDivSmall(a, n) ==
  LET d == BDivSmallFrom(a, n, Len(a), 0)
  IN  [q |-> BNorm(d.q), r |-> d.r]

RECURSIVE IntBitLen(_)
IntBitLen(x) == IF x = 0 THEN 0 ELSE 1 + IntBitLen(x \div 2)

BBitLen(a) ==
  IF a = <<>> THEN 0 ELSE (Len(a) - 1) * LimbBits + IntBitLen(a[Len(a)])

\* a * 2^k
BShl(a, k) ==
  IF a = <<>> THEN <<>>
  ELSE [i \in 1..(k \div LimbBits) |-> 0] \o BMulSmall(a, Pow2(k % LimbBits))

\* a \div 2^k, and whether a nonzero remainder was dropped
BShr(a, k) ==
  LET limbs   == k \div LimbBits
      dropped == SubSeq(a, 1, Min2(limbs, Len(a)))
      kept    == SubSeq(a, limbs + 1, Len(a))
      d       == BDivSmall(kept, Pow2(k % LimbBits))
  IN  [q |-> d.q, sticky |-> d.r # 0 \/ \E i \in DOMAIN dropped : dropped[i] # 0]

\* A binary64 value is [neg, m, e]: (-1)^neg * m * 2^e with m < 2^53.
\* Round m * 2^e (plus a dropped positive fraction when sticky) to the
\* nearest binary64, ties to even.
FRound(m, e, sticky) ==
  IF BBitLen(m) <= Mantissa THEN [neg |-> FALSE, m |-> m, e |-> e]
  ELSE LET k    == BBitLen(m) - Mantissa
           sh   == BShr(m, k - 1)
           half == BDivSmall(sh.q, 2)
           up   == half.r = 1 /\ (sh.sticky \/ sticky \/ half.q[1] % 2 = 1)
       IN  [neg |-> FALSE,
            m |-> IF up THEN BAdd(half.q, <<1>>) ELSE half.q,
            e |-> e + k]

\* f / n for a binary64 f >= 0 and an integer n
FDiv(f, n) ==
  LET d == BDivSmall(BShl(f.m, GuardBits), n)
  IN  FRound(d.q, f.e - GuardBits, d.r # 0)

\* the magnitude of x - f for an integer x and a binary64 f >= 0
FAbsDiff(x, f) ==
  LET e0 == Min2(0, f.e)
      a  == BShl(BNat(x), 0 - e0)
      b  == BShl(f.m, f.e - e0)
  IN  FRound(IF BCmp(a, b) >= 0 THEN BSub(a, b) ELSE BSub(b, a), e0, FALSE)

FMul(f, g) == FRound(BMul(f.m, g.m), f.e + g.e, FALSE)

FAdd(f, g) ==
  LET e0 == Min2(f.e, g.e)
  IN  FRound(BAdd(BShl(f.m, f.e - e0), BShl(g.m, g.e - e0)), e0, FALSE)

\* -1, 0 or 1 as f < g, f = g or f > g
FCmp(f, g) ==
  LET e0 == Min2(f.e, g.e)
      c  == BCmp(BShl(f.m, f.e - e0), BShl(g.m, g.e - e0))
  IN  IF f.neg /\ g.neg THEN 0 - c
      ELSE IF f.neg THEN (IF f.m = <<>> /\ g.m = <<>> THEN 0 ELSE -1)
      ELSE IF g.neg THEN (IF f.m = <<>> /\ g.m = <<>> THEN 0 ELSE 1)
      ELSE c

RECURSIVE FSumFrom(_, _, _)
\* np.add.reduce over the rows: the terms are added in row order
FSumFrom(xs, i, acc) ==
  IF i > Len(xs) THEN acc ELSE FSumFrom(xs, i + 1, FAdd(acc, xs[i]))

\* np.var of one column of integer scores (numpy _var): the mean is the
\* sum over n, each deviation is squared, the squares are summed and the
\* sum is divided by n, every operation rounded to binary64.
NpVar(col) ==
  LET n       == Len(col)
      arrmean == FDiv([neg |-> FALSE, m |-> BNat(SumSeq(col)), e |-> 0], n)
      xx      == [i \in DOMAIN col |->
                    LET x == FAbsDiff(col[i], arrmean) IN FMul(x, x)]
  IN  FDiv(FSumFrom(xx, 2, xx[1]), n)

\* np.var(scores_array[:, :7], axis=0), an array over the dimensions.  Equal
\* columns have equal variances: the variance of each distinct column is
\* computed once, and looked up for every dimension that holds the column.
Variances(analysis) ==
  CHOOSE variances \in
      { [d \in Scales |-> (CHOOSE p \in computed : p[1] = Column(analysis, d))[2]] :
          computed \in { {<<col, NpVar(col)>> :
                           col \in {Column(analysis, d) : d \in Scales}} } } :
    TRUE

\* variances[idx] = -1.0 for idx in used_scale_indices
Sentinel == [neg |-> TRUE, m |-> <<1>>, e |-> 0]

\* a selector that excludes nothing
MaskNothing(variances, used) == variances

MaskUsed(variances, used) ==
  [d \in Scales |-> IF d \in Range(used) THEN Sentinel ELSE variances[d]]

\* np.argmax: the first index holding the maximum
ArgMax(v) ==
  CHOOSE i \in DOMAIN v :
    \A j \in DOMAIN v :
      LET c == FCmp(v[j], v[i]) IN c < 0 \/ (c = 0 /\ i <= j)

\* A selection that starts the list over without recording its choice.
SelectAmongForgetting(variances, used) ==
  LET masked == MaskUsed(variances, used)
      first  == ArgMax(masked)
  IN  IF masked[first] = Sentinel
        THEN [index |-> ArgMax(variances), used |-> <<>>]
        ELSE [index |-> first, used |-> Append(used, first)]

\* Lines 749-761, on the variances of line 743: the index selected and
\* used_scale_indices afterwards.
SelectAmong(variances, used) ==
  LET masked == MaskUsed(variances, used)
      first  == ArgMax(masked)
  IN  IF masked[first] = Sentinel
        THEN LET again == ArgMax(variances)
             IN  [index |-> again, used |-> <<again>>]
        ELSE [index |-> first, used |-> Append(used, first)]

\* Lines 733-761: the variances are computed, then the selection is made.
SelectScale(analysis, used) ==
  CHOOSE selection \in
      { SelectAmong(variances, used) : variances \in {Variances(analysis)} } :
    TRUE

\* scale_definitions[i]["technical"] and the texts the oracle is given
Technical == <<"SCC", "ASI", "MVA", "PSF", "AAO", "SRD", "PRI">>
DefaultQuestion == "default_question"
DefaultOptionA == "former"
DefaultOptionB == "latter"
FallbackQuestion == "fallback_question"
FallbackOptions == [a |-> "fallback_a", b |-> "fallback_b"]
GeneralScale == "General"

\* The five radio options built from the pending options (lines 644-650);
\* the neutral choice carries no option text.
AnswerText(choice, opts) ==
  CASE choice = 1 -> <<"strong_A", DictGet(opts, "a", DefaultOptionA)>>
    [] choice = 2 -> <<"lean_A", DictGet(opts, "a", DefaultOptionA)>>
    [] choice = 3 -> <<"neutral">>
    [] choice = 4 -> <<"lean_B", DictGet(opts, "b", DefaultOptionB)>>
    [] choice = 5 -> <<"strong_B", DictGet(opts, "b", DefaultOptionB)>>

\* ------------------------------------------ steps 4 and 5: loop exit
\* Variants of LoopDone: the loop stopping at two personas, and the loop
\* running on a single persona.
LoopDoneAtTwo(profiles) == Len(profiles) <= 2
LoopDoneAtZero(profiles) == Len(profiles) < 1

\* if len(st.session_state.user_profiles) <= 1 / if remaining_profiles <= 1
LoopDone(profiles) == Len(profiles) <= 1

\* user_profiles[0] if user_profiles else None
FirstOrNone(profiles) == IF profiles # <<>> THEN Some(profiles[1]) ELSE None

\* --------------------------------------------- step 5: elimination
DefaultReason == "default_reason"
SystemError == "system_error"
NA == "N/A"

\* history_text: every (question, answer) pair in order, or the placeholder
\* text when either list is empty
\* A history text that carries the latest exchange only.
HistoryTextLatest(questions, answers) ==
  IF questions # <<>> /\ answers # <<>>
    THEN [placeholder |-> FALSE,
          pairs |-> <<[question |-> questions[Len(questions)],
                       answer |-> answers[Len(answers)]]>>]
    ELSE [placeholder |-> TRUE, pairs |-> <<>>]

HistoryText(questions, answers) ==
  IF questions # <<>> /\ answers # <<>>
    THEN [placeholder |-> FALSE,
          pairs |-> [i \in 1..Min2(Len(questions), Len(answers)) |->
                       [question |-> questions[i], answer |-> answers[i]]]]
    ELSE [placeholder |-> TRUE, pairs |-> <<>>]

Last(s, default) == IF s # <<>> THEN s[Len(s)] ELSE default

\* eliminated_id = result.get('eliminated_id', 1); int(...) or 1
EliminatedId(result) ==
  LET raw == DictGet(result, "eliminated_id", [t |-> "int", v |-> DefaultEliminatedId])
      n   == PyInt(raw)
  IN  IF n.raised THEN DefaultEliminatedId ELSE n.v

\* A filter that numbers the survivors anew.
WithoutIdRenumbering(xs, eliminated_id) ==
  LET kept == SelectSeqBy(xs, {x \in Range(xs) : x.profile_id # eliminated_id})
  IN  [i \in DOMAIN kept |-> [kept[i] EXCEPT !.profile_id = i]]

\* [p for p in xs if p.get('profile_id') != eliminated_id]
WithoutId(xs, eliminated_id) ==
  SelectSeqBy(xs, {x \in Range(xs) : x.profile_id # eliminated_id})

\* A variant of FallbackEliminate: the last persona is dropped, not the first.
FallbackEliminateLast(profiles, analysis) ==
  [profiles |-> SubSeq(profiles, 1, Len(profiles) - 1),
   analysis |-> analysis,
   record   |-> [eliminated_id |-> profiles[Len(profiles)].profile_id,
                 reason |-> SystemError,
                 question |-> NA,
                 answer |-> <<NA>>]]

\* The except block of step 5 (lines 910-921): the first persona is dropped
\* from user_profiles; quantitative_analysis is not touched.
FallbackEliminate(profiles, analysis) ==
  [profiles |-> Tail(profiles),
   analysis |-> analysis,
   record   |-> [eliminated_id |-> profiles[1].profile_id,
                 reason |-> SystemError,
                 question |-> NA,
                 answer |-> <<NA>>]]

\* The try block of step 5 (lines 880-907), or its except block when the
\* call raises or result.get does: the population, the score vectors and
\* the record appended.
Eliminate(call, profiles, analysis, questions, answers) ==
  IF ~call.raised /\ call.value.t = "dict"
    THEN LET result == call.value.v
             eliminated_id == EliminatedId(result)
         IN  [profiles |-> WithoutId(profiles, eliminated_id),
              analysis |-> WithoutId(analysis, eliminated_id),
              record   |-> [eliminated_id |-> eliminated_id,
                            reason |-> DictGet(result, "reason", DefaultReason),
                            question |-> Last(questions, NA),
                            answer |-> Last(answers, <<NA>>)]]
    ELSE FallbackEliminate(profiles, analysis)

\* --------------------------------------- steps 6 and 7: recommendation
DefaultRecommendation == [t |-> "dict", v |-> "default_recommendation"]
FallbackQA == <<"fallback_qa1", "fallback_qa2", "fallback_qa3">>
MaxQAPairs == 3

\* Python truthiness of a stored recommendation: None and {} are falsy
Truthy(rec) == rec # None /\ ~(rec[1].t = "dict" /\ rec[1].v = "empty")

\* display_recommendation raises on a value without .get, and on a field
\* it cannot join
DisplayRaises(rec) == rec.t # "dict" \/ rec.v = "unjoinable"

\* ------------------------------------------------------------- state
VARIABLES
  experiment_mode,        \* app.py: None, "A" or "B"
  step,
  liked_input, disliked_input,   \* the text areas as of the last press of start
  liked_movies, disliked_movies,
  user_profiles, profiles_generated, processing,
  quantitative_analysis, analysis_completed,
  current_question, current_scale, current_options, used_scale_indices,
  questions_asked, answers_given,
  elimination_history, elimination_completed,
  final_profile, recommendation, qa_pairs,
  turn_count, chat_history,      \* system B
  liked_movie, disliked_movie,
  pc,                     \* "run": a script run is scheduled; "idle": the page waits
  shown,                  \* the buttons the last completed run displayed
  llm_log                 \* the oracle calls made by the last script run

intake     == <<liked_input, disliked_input, liked_movies, disliked_movies>>
personas   == <<user_profiles, profiles_generated>>
scoring    == <<quantitative_analysis, analysis_completed>>
pending    == <<current_question, current_scale, current_options>>
dialogue   == <<questions_asked, answers_given>>
audit      == <<elimination_history, elimination_completed>>
outcome    == <<final_profile, recommendation, qa_pairs>>

session == <<step, intake, personas, processing, scoring, pending,
             used_scale_indices, dialogue, audit, outcome>>

\* The keys of system B; its recommendation is kept under the key of
\* system A's.
agent == <<turn_count, chat_history, liked_movie, disliked_movie>>

vars == <<experiment_mode, session, agent, pc, shown, llm_log>>

\* system_b.main, lines 126-133: the value of every key that is absent
AgentDefaults ==
  /\ turn_count' = 0
  /\ chat_history' = <<>>
  /\ liked_movie' = ""
  /\ disliked_movie' = ""

AgentInit ==
  /\ turn_count = 0
  /\ chat_history = <<>>
  /\ liked_movie = ""
  /\ disliked_movie = ""

\* init_session_state: the value of every key that is absent
SessionDefaults ==
  /\ step' = 1
  /\ user_profiles' = <<>>
  /\ quantitative_analysis' = <<>>
  /\ liked_input' = <<>>
  /\ disliked_input' = <<>>
  /\ liked_movies' = <<>>
  /\ disliked_movies' = <<>>
  /\ questions_asked' = <<>>
  /\ answers_given' = <<>>
  /\ current_question' = ""
  /\ current_scale' = ""
  /\ final_profile' = None
  /\ recommendation' = None
  /\ qa_pairs' = <<>>
  /\ elimination_history' = <<>>
  /\ processing' = FALSE
  /\ profiles_generated' = FALSE
  /\ analysis_completed' = FALSE
  /\ elimination_completed' = FALSE
  /\ used_scale_indices' = <<>>
  /\ current_options' = EmptyDict

Init ==
  /\ experiment_mode = None
  /\ step = 1
  /\ user_profiles = <<>>
  /\ quantitative_analysis = <<>>
  /\ liked_input = <<>>
  /\ disliked_input = <<>>
  /\ liked_movies = <<>>
  /\ disliked_movies = <<>>
  /\ questions_asked = <<>>
  /\ answers_given = <<>>
  /\ current_question = ""
  /\ current_scale = ""
  /\ final_profile = None
  /\ recommendation = None
  /\ qa_pairs = <<>>
  /\ elimination_history = <<>>
  /\ processing = FALSE
  /\ profiles_generated = FALSE
  /\ analysis_completed = FALSE
  /\ elimination_completed = FALSE
  /\ used_scale_indices = <<>>
  /\ current_options = EmptyDict
  /\ pc = "run"
  /\ shown = {}
  /\ llm_log = <<>>
  /\ AgentInit

\* A run that ends in st.rerun(): the next run starts at once.
Rerun == pc' = "run" /\ shown' = {}
\* A run that renders `buttons` and ends: the page waits for the user.
\* The sidebar of system A, with its restart button, is rendered first.
Wait(buttons) == pc' = "idle" /\ shown' = buttons \cup {"restart"}

Running(s) == experiment_mode = Some("A") /\ pc = "run" /\ step = s
Pressed(s, b) == experiment_mode = Some("A") /\ pc = "idle" /\ step = s /\ b \in shown

\* One entry of llm_log: an invocation of safe_llm_call
LogEntry(kind, call, inputs) ==
  [kind |-> kind, attempts |-> call.attempts, raised |-> call.raised,
   value |-> call.value, inputs |-> inputs]

\* ------------------------------------------------------------- app.py
\* The mode selection screen.
RunApp ==
  /\ experiment_mode = None /\ pc = "run"
  /\ pc' = "idle" /\ shown' = {"choose_A", "choose_B"}
  /\ llm_log' = <<>>
  /\ UNCHANGED <<agent, experiment_mode, session>>

ChooseSystem(m) ==
  /\ experiment_mode = None /\ pc = "idle" /\ m \in shown
  /\ experiment_mode' = Some(IF m = "choose_A" THEN "A" ELSE "B")
  /\ Rerun
  /\ llm_log' = <<>>
  /\ UNCHANGED <<session, agent>>

\* The sidebar restart of system A: every key but experiment_mode is deleted
\* and init_session_state restores the defaults on the next run.
ClickRestart ==
  /\ experiment_mode = Some("A") /\ pc = "idle" /\ "restart" \in shown
  /\ SessionDefaults
  /\ AgentDefaults
  /\ Rerun
  /\ llm_log' = <<>>
  /\ UNCHANGED experiment_mode

\* ------------------------------------------------------------- step 1
\* Inputs typed into the two text areas.
LikedInputs == { <<>>, <<"a">> }
DislikedInputs == { <<>> }

RunStep1 ==
  /\ Running(1)
  /\ Wait({"start"})
  /\ llm_log' = <<>>
  /\ UNCHANGED <<agent, experiment_mode, session>>

ClickStart(liked_text, disliked_text) ==
  /\ Pressed(1, "start")
  /\ llm_log' = <<>>
  /\ liked_input' = liked_text
  /\ disliked_input' = disliked_text
  /\ IF Strip(liked_text) # <<>>
       THEN /\ liked_movies' = ParseMovies(liked_text, MaxLiked)
            /\ disliked_movies' = IF Strip(disliked_text) # <<>>
                                    THEN ParseMovies(disliked_text, MaxDisliked)
                                    ELSE <<>>
            /\ step' = 2
            /\ processing' = FALSE
            /\ Rerun
            /\ UNCHANGED <<agent, experiment_mode, personas, scoring, pending,
                           used_scale_indices, dialogue, audit, outcome>>
       ELSE /\ Wait({"start"})
            /\ UNCHANGED <<agent, experiment_mode, step, liked_movies, disliked_movies,
                           personas, processing, scoring, pending,
                           used_scale_indices, dialogue, audit, outcome>>

\* ------------------------------------------------------------- step 2
PersonaText == <<"p1", "p2", "p3", "p4", "p5", "p6", "p7", "p8">>
PersonaList(n) == [t |-> "list", v |-> [i \in 1..n |-> [t |-> "dict", v |-> PersonaText[i]]]]
\* What the persona oracle may return: a list of objects, a list holding a
\* string, or an object instead of a list.
ProfileResponses ==
  {PersonaList(n) : n \in 0..MaxOracleList}
    \cup {[t |-> "list", v |-> <<[t |-> "str", v |-> "text"]>>], [t |-> "dict", v |-> EmptyDict]}

ProfilesShown == profiles_generated /\ user_profiles # <<>>

Step2(responses) ==
  /\ Running(2)
  /\ IF ProfilesShown
       THEN /\ Wait({"to_analysis", "regenerate"})
            /\ llm_log' = <<>>
            /\ UNCHANGED <<agent, experiment_mode, session>>
     ELSE IF ~processing
       THEN /\ Wait({"generate"})
            /\ llm_log' = <<>>
            /\ UNCHANGED <<agent, experiment_mode, session>>
     ELSE \E failures \in Failures, response \in responses :
            LET call  == safe_llm_call(failures, response)
                built == IF ~call.raised /\ call.value.t = "list"
                           THEN BuildProfiles(call.value.v)
                           ELSE [raised |-> call.raised, profiles |-> <<>>]
            IN  /\ llm_log' = <<LogEntry("profiles", call, <<liked_movies, disliked_movies>>)>>
                /\ processing' = FALSE
                /\ IF built.raised
                     THEN \* except: the fallback button is offered
                          /\ Wait({"sample"})
                          /\ UNCHANGED personas
                     ELSE IF call.value.t = "list"
                       THEN /\ user_profiles' = built.profiles
                            /\ profiles_generated' = TRUE
                            /\ Rerun
                     ELSE /\ Rerun
                          /\ UNCHANGED personas
                /\ UNCHANGED <<agent, experiment_mode, step, intake, scoring, pending,
                               used_scale_indices, dialogue, audit, outcome>>

RunStep2 == Step2(ProfileResponses)

\* Going on to step 3 without asking for a new analysis.
ClickToAnalysisKeepingAnalysis ==
  /\ Pressed(2, "to_analysis") /\ ProfilesShown
  /\ step' = 3
  /\ Rerun
  /\ llm_log' = <<>>
  /\ UNCHANGED <<agent, experiment_mode, intake, personas, processing, scoring,
                 pending, used_scale_indices, dialogue, audit, outcome>>

ClickToAnalysis ==
  /\ Pressed(2, "to_analysis") /\ ProfilesShown
  /\ step' = 3
  /\ analysis_completed' = FALSE
  /\ Rerun
  /\ llm_log' = <<>>
  /\ UNCHANGED <<agent, experiment_mode, intake, personas, processing, quantitative_analysis,
                 pending, used_scale_indices, dialogue, audit, outcome>>

ClickRegenerate ==
  /\ Pressed(2, "regenerate") /\ ProfilesShown
  /\ user_profiles' = <<>>
  /\ profiles_generated' = FALSE
  /\ processing' = FALSE
  /\ Rerun
  /\ llm_log' = <<>>
  /\ UNCHANGED <<agent, experiment_mode, step, intake, scoring, pending,
                 used_scale_indices, dialogue, audit, outcome>>

ClickGenerate ==
  /\ Pressed(2, "generate") /\ ~ProfilesShown /\ ~processing
  /\ processing' = TRUE
  /\ Rerun
  /\ llm_log' = <<>>
  /\ UNCHANGED <<agent, experiment_mode, step, intake, personas, scoring, pending,
                 used_scale_indices, dialogue, audit, outcome>>

\* The fallback button is created inside the except block, which a run
\* reaches only while processing is true; the failed run has reset it, so
\* the run the click triggers renders the generate button and the click is
\* not read.
ClickSample ==
  /\ Pressed(2, "sample") /\ ~ProfilesShown
  /\ llm_log' = <<>>
  /\ IF processing
       THEN /\ user_profiles' = SampleProfiles
            /\ profiles_generated' = TRUE
            /\ processing' = FALSE
            /\ Rerun
            /\ UNCHANGED <<agent, experiment_mode, step, intake, scoring, pending,
                           used_scale_indices, dialogue, audit, outcome>>
       ELSE /\ Wait({"generate"})
            /\ UNCHANGED <<agent, experiment_mode, session>>

\* ------------------------------------------------------------- step 3
IntList(s) == [t |-> "list", v |-> [i \in DOMAIN s |-> [t |-> "int", v |-> s[i]]]]
TextList(n) == [t |-> "list", v |-> Repeat("oracle_detail", n)]
AnalysisDict(scores, explanations) ==
  [t |-> "dict", v |-> [scores |-> scores, explanations |-> explanations]]

\* What the scoring oracle may return for one persona in the flow: a short
\* vector, or text instead of an object.
AnalysisResponses ==
  { AnalysisDict(IntList(<<2, 9>>), TextList(2)),
    [t |-> "str", v |-> "text"] }

AnalysisShown == analysis_completed /\ quantitative_analysis # <<>>

\* scoring that gives up on the whole batch when one call fails
AnalyzeAllOrAbort(profiles, outcomes) ==
  IF \E i \in DOMAIN profiles : safe_llm_call(outcomes[i][1], outcomes[i][2]).raised
    THEN [i \in DOMAIN profiles |-> FallbackAnalysis(profiles[i])]
    ELSE [i \in DOMAIN profiles |->
            NormalizeAnalysis(safe_llm_call(outcomes[i][1], outcomes[i][2]), profiles[i])]

\* The scoring loop, one oracle call per persona in population order.
\* `outcomes[i]` is the number of failed attempts and the response for persona i.
AnalyzeAll(profiles, outcomes) ==
  [i \in DOMAIN profiles |->
     NormalizeAnalysis(safe_llm_call(outcomes[i][1], outcomes[i][2]), profiles[i])]

AnalysisLog(profiles, outcomes) ==
  [i \in DOMAIN profiles |->
     LogEntry("analysis", safe_llm_call(outcomes[i][1], outcomes[i][2]), profiles[i])]

\* A scoring that leaves the processing flag as it is.
Step3KeepingFlag(responses) ==
  /\ Running(3)
  /\ IF user_profiles = <<>>
       THEN /\ Wait({"back_to_2"})
            /\ llm_log' = <<>>
            /\ UNCHANGED <<agent, experiment_mode, session>>
     ELSE IF AnalysisShown
       THEN /\ Wait({"to_questions", "reanalyze", "back"})
            /\ llm_log' = <<>>
            /\ UNCHANGED <<agent, experiment_mode, session>>
     ELSE IF ~processing
       THEN /\ Wait({"start_analysis"})
            /\ llm_log' = <<>>
            /\ UNCHANGED <<agent, experiment_mode, session>>
     ELSE \E outcomes \in [DOMAIN user_profiles -> Failures \X responses] :
            /\ quantitative_analysis' = AnalyzeAll(user_profiles, outcomes)
            /\ llm_log' = AnalysisLog(user_profiles, outcomes)
            /\ analysis_completed' = TRUE
            /\ Rerun
            /\ UNCHANGED <<agent, experiment_mode, step, intake, personas, processing, pending,
                           used_scale_indices, dialogue, audit, outcome>>

Step3(responses) ==
  /\ Running(3)
  /\ IF user_profiles = <<>>
       THEN /\ Wait({"back_to_2"})
            /\ llm_log' = <<>>
            /\ UNCHANGED <<agent, experiment_mode, session>>
     ELSE IF AnalysisShown
       THEN /\ Wait({"to_questions", "reanalyze", "back"})
            /\ llm_log' = <<>>
            /\ UNCHANGED <<agent, experiment_mode, session>>
     ELSE IF ~processing
       THEN /\ Wait({"start_analysis"})
            /\ llm_log' = <<>>
            /\ UNCHANGED <<agent, experiment_mode, session>>
     ELSE \E outcomes \in [DOMAIN user_profiles -> Failures \X responses] :
            /\ quantitative_analysis' = AnalyzeAll(user_profiles, outcomes)
            /\ llm_log' = AnalysisLog(user_profiles, outcomes)
            /\ analysis_completed' = TRUE
            /\ processing' = FALSE
            /\ Rerun
            /\ UNCHANGED <<agent, experiment_mode, step, intake, personas, pending,
                           used_scale_indices, dialogue, audit, outcome>>

RunStep3 == Step3(AnalysisResponses)

ClickToQuestions ==
  /\ Pressed(3, "to_questions") /\ user_profiles # <<>> /\ AnalysisShown
  /\ step' = 4
  /\ analysis_completed' = TRUE
  /\ Rerun
  /\ llm_log' = <<>>
  /\ UNCHANGED <<agent, experiment_mode, intake, personas, processing, quantitative_analysis,
                 pending, used_scale_indices, dialogue, audit, outcome>>

ClickReanalyze ==
  /\ Pressed(3, "reanalyze") /\ user_profiles # <<>> /\ AnalysisShown
  /\ quantitative_analysis' = <<>>
  /\ analysis_completed' = FALSE
  /\ Rerun
  /\ llm_log' = <<>>
  /\ UNCHANGED <<agent, experiment_mode, step, intake, personas, processing,
                 pending, used_scale_indices, dialogue, audit, outcome>>

ClickBack ==
  /\ Pressed(3, "back") /\ user_profiles # <<>> /\ AnalysisShown
  /\ step' = 2
  /\ Rerun
  /\ llm_log' = <<>>
  /\ UNCHANGED <<agent, experiment_mode, intake, personas, processing, scoring,
                 pending, used_scale_indices, dialogue, audit, outcome>>

ClickStartAnalysis ==
  /\ Pressed(3, "start_analysis") /\ user_profiles # <<>> /\ ~AnalysisShown
  /\ processing' = TRUE
  /\ Rerun
  /\ llm_log' = <<>>
  /\ UNCHANGED <<agent, experiment_mode, step, intake, personas, scoring,
                 pending, used_scale_indices, dialogue, audit, outcome>>

\* ------------------------------------------------------------- step 4
QuestionText == <<"q0", "q1", "q2", "q3", "q4", "q5", "q6">>

\* What the question oracle may return for dimension d: a complete object,
\* an object with an empty question, or a list.
QuestionDict(question) ==
  [t |-> "dict", v |-> [question |-> question,
                        option_a |-> "oracle_a", option_b |-> "oracle_b"]]
QuestionResponses ==
  [d \in Scales |-> { QuestionDict(QuestionText[d + 1]), QuestionDict(""),
                      [t |-> "list", v |-> <<>>] }]

QuestionPending == current_question # "" /\ current_scale # ""

\* Step 4 with the selected dimension recorded after the oracle has
\* answered, and not at all when the call fails.
Step4RecordingOnSuccess(responses) ==
  /\ Running(4)
  /\ IF LoopDone(user_profiles)
       THEN /\ Wait({"recommend"})
            /\ llm_log' = <<>>
            /\ UNCHANGED <<agent, experiment_mode, session>>
     ELSE IF quantitative_analysis = <<>>
       THEN /\ Wait({"back_to_3"})
            /\ llm_log' = <<>>
            /\ UNCHANGED <<agent, experiment_mode, session>>
     ELSE IF QuestionPending
       THEN /\ Wait({"submit", "change"})
            /\ llm_log' = <<>>
            /\ UNCHANGED <<agent, experiment_mode, session>>
     ELSE \E selected \in {SelectScale(quantitative_analysis, used_scale_indices)} :
            \E failures \in Failures, response \in responses[selected.index] :
                LET call == safe_llm_call(failures, response)
                IN  /\ llm_log' = <<LogEntry("question", call,
                                      [scale |-> selected.index,
                                       past_questions |-> questions_asked])>>
                    /\ IF ~call.raised /\ call.value.t = "dict"
                         THEN /\ used_scale_indices' = selected.used
                              /\ current_question' =
                                   DictGet(call.value.v, "question", DefaultQuestion)
                              /\ current_options' =
                                   [a |-> DictGet(call.value.v, "option_a", DefaultOptionA),
                                    b |-> DictGet(call.value.v, "option_b", DefaultOptionB)]
                              /\ current_scale' = Technical[selected.index + 1]
                         ELSE /\ UNCHANGED used_scale_indices
                              /\ current_question' = FallbackQuestion
                              /\ current_options' = FallbackOptions
                              /\ current_scale' = GeneralScale
                    /\ Rerun
                    /\ UNCHANGED <<agent, experiment_mode, step, intake, personas, processing,
                                   scoring, dialogue, audit, outcome>>

Step4(responses) ==
  /\ Running(4)
  /\ IF LoopDone(user_profiles)
       THEN /\ Wait({"recommend"})
            /\ llm_log' = <<>>
            /\ UNCHANGED <<agent, experiment_mode, session>>
     ELSE IF quantitative_analysis = <<>>
       THEN /\ Wait({"back_to_3"})
            /\ llm_log' = <<>>
            /\ UNCHANGED <<agent, experiment_mode, session>>
     ELSE IF QuestionPending
       THEN /\ Wait({"submit", "change"})
            /\ llm_log' = <<>>
            /\ UNCHANGED <<agent, experiment_mode, session>>
     ELSE \E selected \in {SelectScale(quantitative_analysis, used_scale_indices)} :
            \E failures \in Failures, response \in responses[selected.index] :
                LET call == safe_llm_call(failures, response)
                IN  /\ used_scale_indices' = selected.used
                    /\ llm_log' = <<LogEntry("question", call,
                                      [scale |-> selected.index,
                                       past_questions |-> questions_asked])>>
                    /\ IF ~call.raised /\ call.value.t = "dict"
                         THEN /\ current_question' =
                                   DictGet(call.value.v, "question", DefaultQuestion)
                              /\ current_options' =
                                   [a |-> DictGet(call.value.v, "option_a", DefaultOptionA),
                                    b |-> DictGet(call.value.v, "option_b", DefaultOptionB)]
                              /\ current_scale' = Technical[selected.index + 1]
                         ELSE /\ current_question' = FallbackQuestion
                              /\ current_options' = FallbackOptions
                              /\ current_scale' = GeneralScale
                    /\ Rerun
                    /\ UNCHANGED <<agent, experiment_mode, step, intake, personas, processing,
                                   scoring, dialogue, audit, outcome>>

RunStep4 == Step4(QuestionResponses)

ClickRecommend4 ==
  /\ Pressed(4, "recommend") /\ LoopDone(user_profiles)
  /\ final_profile' = FirstOrNone(user_profiles)
  /\ step' = 6
  /\ Rerun
  /\ llm_log' = <<>>
  /\ UNCHANGED <<agent, experiment_mode, intake, personas, processing, scoring, pending,
                 used_scale_indices, dialogue, audit, recommendation, qa_pairs>>

Choices == 1..5
\* The choices submitted in the flow: the preselected neutral one, and strong B.
FlowChoices == {3, 5}

\* A submission that leaves elimination_completed as it is.
ClickSubmitKeepingFlag(choice) ==
  /\ Pressed(4, "submit") /\ ~LoopDone(user_profiles) /\ quantitative_analysis # <<>>
  /\ QuestionPending
  /\ questions_asked' = Append(questions_asked, current_question)
  /\ answers_given' = Append(answers_given, AnswerText(choice, current_options))
  /\ current_question' = ""
  /\ current_scale' = ""
  /\ current_options' = EmptyDict
  /\ step' = 5
  /\ Rerun
  /\ llm_log' = <<>>
  /\ UNCHANGED <<agent, experiment_mode, intake, personas, processing, scoring,
                 used_scale_indices, audit, outcome>>

ClickSubmit(choice) ==
  /\ Pressed(4, "submit") /\ ~LoopDone(user_profiles) /\ quantitative_analysis # <<>>
  /\ QuestionPending
  /\ questions_asked' = Append(questions_asked, current_question)
  /\ answers_given' = Append(answers_given, AnswerText(choice, current_options))
  /\ current_question' = ""
  /\ current_scale' = ""
  /\ current_options' = EmptyDict
  /\ elimination_completed' = FALSE
  /\ step' = 5
  /\ Rerun
  /\ llm_log' = <<>>
  /\ UNCHANGED <<agent, experiment_mode, intake, personas, processing, scoring,
                 used_scale_indices, elimination_history, outcome>>

\* A discard that files the discarded question among the questions asked.
ClickChangeRecordingQuestion ==
  /\ Pressed(4, "change") /\ ~LoopDone(user_profiles) /\ quantitative_analysis # <<>>
  /\ QuestionPending
  /\ questions_asked' = Append(questions_asked, current_question)
  /\ current_question' = ""
  /\ current_scale' = ""
  /\ Rerun
  /\ llm_log' = <<>>
  /\ UNCHANGED <<agent, experiment_mode, step, intake, personas, processing, scoring,
                 current_options, used_scale_indices, answers_given, audit, outcome>>

\* A discard that frees the dimension of the discarded question.
ClickChangeFreeingDimension ==
  /\ Pressed(4, "change") /\ ~LoopDone(user_profiles) /\ quantitative_analysis # <<>>
  /\ QuestionPending
  /\ current_question' = ""
  /\ current_scale' = ""
  /\ used_scale_indices' = SubSeq(used_scale_indices, 1, Len(used_scale_indices) - 1)
  /\ Rerun
  /\ llm_log' = <<>>
  /\ UNCHANGED <<agent, experiment_mode, step, intake, personas, processing, scoring,
                 current_options, dialogue, audit, outcome>>

ClickChange ==
  /\ Pressed(4, "change") /\ ~LoopDone(user_profiles) /\ quantitative_analysis # <<>>
  /\ QuestionPending
  /\ current_question' = ""
  /\ current_scale' = ""
  /\ Rerun
  /\ llm_log' = <<>>
  /\ UNCHANGED <<agent, experiment_mode, step, intake, personas, processing, scoring,
                 current_options, used_scale_indices, dialogue, audit, outcome>>

\* ------------------------------------------------------------- step 5
IntId(i) == [t |-> "int", v |-> i]
EliminationDict(id, reason) ==
  [t |-> "dict", v |-> [eliminated_id |-> id, reason |-> reason]]

\* What the elimination oracle may return: an object naming any id (of a
\* present persona or not), an id that is no integer ("abc"), a numeric
\* string, an object without fields, or a list.
EliminationIds == 1..(MaxOracleList + 1)
EliminationResponses ==
  {EliminationDict(IntId(i), "oracle_reason") : i \in EliminationIds}
    \cup { EliminationDict([t |-> "text", v |-> "abc"], "oracle_reason"),
           [t |-> "list", v |-> <<>>] }

\* Step 5 with a round that does not mark itself complete.
Step5Repeating(responses) ==
  /\ Running(5)
  /\ IF LoopDone(user_profiles)
       THEN /\ final_profile' = FirstOrNone(user_profiles)
            /\ Wait({"recommend"})
            /\ llm_log' = <<>>
            /\ UNCHANGED <<agent, experiment_mode, step, intake, personas, processing, scoring,
                           pending, used_scale_indices, dialogue, audit,
                           recommendation, qa_pairs>>
     ELSE IF ~elimination_completed
       THEN \E failures \in Failures, response \in responses :
              LET call == safe_llm_call(failures, response)
                  done == Eliminate(call, user_profiles, quantitative_analysis,
                                    questions_asked, answers_given)
              IN  /\ llm_log' = <<LogEntry("elimination", call,
                                    [profiles |-> user_profiles,
                                     history |-> HistoryText(questions_asked, answers_given)])>>
                  /\ user_profiles' = done.profiles
                  /\ quantitative_analysis' = done.analysis
                  /\ elimination_history' = Append(elimination_history, done.record)
                  /\ UNCHANGED elimination_completed
                  /\ Rerun
                  /\ UNCHANGED <<agent, experiment_mode, step, intake, profiles_generated, processing,
                                 analysis_completed, pending, used_scale_indices, dialogue,
                                 outcome>>
     ELSE IF Len(user_profiles) > 1
       THEN /\ Wait({"next_question"})
            /\ llm_log' = <<>>
            /\ UNCHANGED <<agent, experiment_mode, session>>
     ELSE \* lines 943-948
          /\ final_profile' = Some(user_profiles[1])
          /\ Wait({"recommend"})
          /\ llm_log' = <<>>
          /\ UNCHANGED <<agent, experiment_mode, step, intake, personas, processing, scoring,
                         pending, used_scale_indices, dialogue, audit,
                         recommendation, qa_pairs>>

Step5(responses) ==
  /\ Running(5)
  /\ IF LoopDone(user_profiles)
       THEN /\ final_profile' = FirstOrNone(user_profiles)
            /\ Wait({"recommend"})
            /\ llm_log' = <<>>
            /\ UNCHANGED <<agent, experiment_mode, step, intake, personas, processing, scoring,
                           pending, used_scale_indices, dialogue, audit,
                           recommendation, qa_pairs>>
     ELSE IF ~elimination_completed
       THEN \E failures \in Failures, response \in responses :
              LET call == safe_llm_call(failures, response)
                  done == Eliminate(call, user_profiles, quantitative_analysis,
                                    questions_asked, answers_given)
              IN  /\ llm_log' = <<LogEntry("elimination", call,
                                    [profiles |-> user_profiles,
                                     history |-> HistoryText(questions_asked, answers_given)])>>
                  /\ user_profiles' = done.profiles
                  /\ quantitative_analysis' = done.analysis
                  /\ elimination_history' = Append(elimination_history, done.record)
                  /\ elimination_completed' = TRUE
                  /\ Rerun
                  /\ UNCHANGED <<agent, experiment_mode, step, intake, profiles_generated, processing,
                                 analysis_completed, pending, used_scale_indices, dialogue,
                                 outcome>>
     ELSE IF Len(user_profiles) > 1
       THEN /\ Wait({"next_question"})
            /\ llm_log' = <<>>
            /\ UNCHANGED <<agent, experiment_mode, session>>
     ELSE \* lines 943-948
          /\ final_profile' = Some(user_profiles[1])
          /\ Wait({"recommend"})
          /\ llm_log' = <<>>
          /\ UNCHANGED <<agent, experiment_mode, step, intake, personas, processing, scoring,
                         pending, used_scale_indices, dialogue, audit,
                         recommendation, qa_pairs>>

RunStep5 == Step5(EliminationResponses)

ClickRecommend5 ==
  /\ Pressed(5, "recommend")
  /\ LoopDone(user_profiles) \/ (elimination_completed /\ ~(Len(user_profiles) > 1))
  /\ final_profile' = FirstOrNone(user_profiles)
  /\ step' = 6
  /\ Rerun
  /\ llm_log' = <<>>
  /\ UNCHANGED <<agent, experiment_mode, intake, personas, processing, scoring, pending,
                 used_scale_indices, dialogue, audit, recommendation, qa_pairs>>

\* A next-question button that goes on to the recommendation.
ClickNextQuestionSkipping ==
  /\ Pressed(5, "next_question") /\ ~LoopDone(user_profiles) /\ elimination_completed
  /\ Len(user_profiles) > 1
  /\ step' = 6
  /\ Rerun
  /\ llm_log' = <<>>
  /\ UNCHANGED <<agent, experiment_mode, intake, personas, processing, scoring, pending,
                 used_scale_indices, dialogue, audit, outcome>>

ClickNextQuestion ==
  /\ Pressed(5, "next_question") /\ ~LoopDone(user_profiles) /\ elimination_completed
  /\ Len(user_profiles) > 1
  /\ step' = 4
  /\ Rerun
  /\ llm_log' = <<>>
  /\ UNCHANGED <<agent, experiment_mode, intake, personas, processing, scoring, pending,
                 used_scale_indices, dialogue, audit, outcome>>

\* ------------------------------------------------------------- step 6
\* What the recommendation oracle may return in the flow: a recommendation,
\* an object without fields, or a list.
RecommendationResponses ==
  { [t |-> "dict", v |-> "movie"], [t |-> "dict", v |-> "empty"],
    [t |-> "list", v |-> "movies"] }

\* A generation whose except block stores an object without fields.
RecommendEmptyOnFailure(call) ==
  IF call.raised \/ DisplayRaises(call.value)
    THEN Some([t |-> "dict", v |-> "empty"])
    ELSE Some(call.value)

\* A generation whose except block stores nothing.
RecommendOrNothing(call) ==
  IF call.raised \/ DisplayRaises(call.value)
    THEN None
    ELSE Some(call.value)

\* Lines 969-1037: the recommendation stored by a generation.
Recommend(call) ==
  IF call.raised \/ DisplayRaises(call.value)
    THEN Some(DefaultRecommendation)
    ELSE Some(call.value)

\* The part of step 6 every run executes before the buttons of
\* display_recommendation are read: the cached recommendation is shown, or
\* one is generated.
Step6Display(failures, response) ==
  IF Truthy(recommendation)
    THEN /\ llm_log' = <<>>
         /\ UNCHANGED recommendation
    ELSE LET call == safe_llm_call(failures, response)
         IN  /\ llm_log' = <<LogEntry("recommendation", call, final_profile)>>
             /\ recommendation' = Recommend(call)

RunStep6 ==
  /\ Running(6)
  /\ IF final_profile = None
       THEN /\ Wait({"reselect"})
            /\ llm_log' = <<>>
            /\ UNCHANGED <<agent, experiment_mode, session>>
       ELSE \E failures \in Failures, response \in RecommendationResponses :
              /\ Step6Display(failures, response)
              /\ Wait({"faq", "regenerate_recommendation", "report"})
              /\ UNCHANGED <<agent, experiment_mode, step, intake, personas, processing, scoring,
                             pending, used_scale_indices, dialogue, audit,
                             final_profile, qa_pairs>>

ClickFaq ==
  /\ Pressed(6, "faq") /\ final_profile # None
  /\ \E failures \in Failures, response \in RecommendationResponses :
       Step6Display(failures, response)
  /\ step' = 7
  /\ Rerun
  /\ UNCHANGED <<agent, experiment_mode, intake, personas, processing, scoring, pending,
                 used_scale_indices, dialogue, audit, final_profile, qa_pairs>>

ClickRegenerateRecommendation ==
  /\ Pressed(6, "regenerate_recommendation") /\ final_profile # None
  /\ \E failures \in Failures, response \in RecommendationResponses :
       LET call == safe_llm_call(failures, response)
       IN  llm_log' = IF Truthy(recommendation) THEN <<>>
                      ELSE <<LogEntry("recommendation", call, final_profile)>>
  /\ recommendation' = None
  /\ Rerun
  /\ UNCHANGED <<agent, experiment_mode, step, intake, personas, processing, scoring, pending,
                 used_scale_indices, dialogue, audit, final_profile, qa_pairs>>

ClickReport6 ==
  /\ Pressed(6, "report") /\ final_profile # None
  /\ \E failures \in Failures, response \in RecommendationResponses :
       Step6Display(failures, response)
  /\ Wait({"faq", "regenerate_recommendation", "report"})
  /\ UNCHANGED <<agent, experiment_mode, step, intake, personas, processing, scoring, pending,
                 used_scale_indices, dialogue, audit, final_profile, qa_pairs>>

\* ------------------------------------------------------------- step 7
QAText == <<"qa1", "qa2", "qa3", "qa4", "qa5">>
\* The characters of a text the oracle may put where the list belongs.
QAChars == <<"t", "e", "x", "t">>
\* What the follow-up oracle may return in the flow: an object with a list
\* of four pairs, an object with a text in place of the list, or a list.
QAResponses ==
  { [t |-> "dict", v |-> [qa_pairs |-> [t |-> "list", v |-> Prefix(QAText, 4)]]],
    [t |-> "dict", v |-> [qa_pairs |-> [t |-> "str", v |-> QAChars]]],
    [t |-> "list", v |-> <<>>] }

\* Lines 1136-1179, executed by every run of step 7: result.get on a value
\* that is no object raises, and so does qa_pairs[:3] on a value that is
\* neither a list nor a text; a text is cut like a list.
GenerateQA(call) ==
  IF ~call.raised /\ call.value.t = "dict"
    THEN LET raw == DictGet(call.value.v, "qa_pairs", [t |-> "list", v |-> <<>>])
         IN  IF raw.t \in {"list", "str"}
               THEN Prefix(raw.v, MaxQAPairs)
               ELSE FallbackQA
    ELSE FallbackQA

\* Lines 1183-1185: qa.get raises on an element that is no object, here a
\* character of a text; the exception ends the run before the buttons.
QADisplayRaises(pairs) == \E i \in DOMAIN pairs : pairs[i] \in Range(QAChars)

Step7Buttons(pairs) ==
  IF QADisplayRaises(pairs) THEN {}
  ELSE {"restart_all", "report", "back_to_recommendation"}

Step7Generate(failures, response) ==
  LET call == safe_llm_call(failures, response)
  IN  /\ llm_log' = <<LogEntry("qa", call, recommendation)>>
      /\ qa_pairs' = GenerateQA(call)

RunStep7 ==
  /\ Running(7)
  /\ \E failures \in Failures, response \in QAResponses : Step7Generate(failures, response)
  /\ Wait(Step7Buttons(qa_pairs'))
  /\ UNCHANGED <<agent, experiment_mode, step, intake, personas, processing, scoring, pending,
                 used_scale_indices, dialogue, audit, final_profile, recommendation>>

\* The restart button of step 7 deletes every key, experiment_mode included;
\* app.py then stores None for it.  The run that serves the press first
\* generates and displays the pairs again.
ClickRestartAll ==
  /\ Pressed(7, "restart_all")
  /\ \E failures \in Failures, response \in QAResponses :
       LET call == safe_llm_call(failures, response)
       IN  /\ llm_log' = <<LogEntry("qa", call, recommendation)>>
           /\ IF QADisplayRaises(GenerateQA(call))
                THEN /\ qa_pairs' = GenerateQA(call)
                     /\ Wait({})
                     /\ UNCHANGED <<agent, experiment_mode, step, intake, personas, processing,
                                    scoring, pending, used_scale_indices, dialogue, audit,
                                    final_profile, recommendation>>
                ELSE /\ SessionDefaults
                     /\ AgentDefaults
                     /\ experiment_mode' = None
                     /\ Rerun

ClickReport7 ==
  /\ Pressed(7, "report")
  /\ \E failures \in Failures, response \in QAResponses : Step7Generate(failures, response)
  /\ Wait(Step7Buttons(qa_pairs'))
  /\ UNCHANGED <<agent, experiment_mode, step, intake, personas, processing, scoring, pending,
                 used_scale_indices, dialogue, audit, final_profile, recommendation>>

ClickBackToRecommendation ==
  /\ Pressed(7, "back_to_recommendation")
  /\ \E failures \in Failures, response \in QAResponses : Step7Generate(failures, response)
  /\ IF QADisplayRaises(qa_pairs')
       THEN Wait({}) /\ UNCHANGED step
       ELSE step' = 6 /\ Rerun
  /\ UNCHANGED <<agent, experiment_mode, intake, personas, processing, scoring, pending,
                 used_scale_indices, dialogue, audit, final_profile, recommendation>>

\* ------------------------------------------------------ specification
\* ------------------------------------------------------------ system B
\* The dialogue ends when turn_count reaches this value.
RecommendTurn == 5
\* No message is sent once chat_history has this length.
MaxChatLen == 11

\* The page of system B has no sidebar.
WaitAgent(buttons) == pc' = "idle" /\ shown' = buttons

RunningAgent == experiment_mode = Some("B") /\ pc = "run"
PressedAgent(b) == experiment_mode = Some("B") /\ pc = "idle" /\ b \in shown

\* The two fields of init_form and the chat input, which submits no
\* empty text.
LikedMovieInputs == {"", "m"}
DislikedMovieInputs == {"", "d"}
ChatInputs == {"u"}

\* chain.invoke of an agent: the agents of system B do not go through a
\* retry wrapper, the exception of a failed call leaves the agent.
invoke(raises, response) ==
  [raised |-> raises,
   value |-> IF raises THEN [t |-> "null"] ELSE response,
   attempts |-> 1]

\* StrOutputParser yields a text, JsonOutputParser whatever JSON value the
\* model wrote.
RespondResponses == { [t |-> "str", v |-> "reply"] }
PlannerResponses ==
  { [t |-> "dict", v |-> [action |-> "answer"]],
    [t |-> "dict", v |-> [action |-> "ask_more"]],
    [t |-> "dict", v |-> EmptyDict],
    [t |-> "list", v |-> <<>>] }
RecommendAgentResponses ==
  { [t |-> "dict", v |-> "movie"],
    [t |-> "dict", v |-> "empty"],
    [t |-> "list", v |-> <<"movie">>] }

\* An element of chat_history; a user message has no "agent" key.
Message(role, content, agent_type) ==
  [role |-> role, content |-> content, agent |-> agent_type]

\* Lines 143-146: the form of turn 0.
RunTurn0 ==
  /\ RunningAgent /\ turn_count = 0
  /\ WaitAgent({"init_form"})
  /\ llm_log' = <<>>
  /\ UNCHANGED <<agent, experiment_mode, session>>

\* Lines 150-159: the form is submitted.
SubmitInitForm(l_mov, d_mov, raises, response) ==
  /\ PressedAgent("init_form") /\ turn_count = 0
  /\ IF l_mov = ""
       THEN /\ WaitAgent({"init_form"})
            /\ llm_log' = <<>>
            /\ UNCHANGED <<agent, experiment_mode, session>>
       ELSE LET initial_q == invoke(raises, response)
            IN  /\ liked_movie' = l_mov
                /\ disliked_movie' = d_mov
                /\ llm_log' = <<LogEntry("guidance", initial_q, <<l_mov, d_mov>>)>>
                /\ IF initial_q.raised
                     THEN /\ WaitAgent({"init_form"})
                          /\ UNCHANGED <<turn_count, chat_history>>
                     ELSE /\ chat_history' =
                               Append(chat_history,
                                      Message("assistant", initial_q.value.v,
                                              Some("Respond (Guidance)")))
                          /\ turn_count' = 1
                          /\ Rerun
                /\ UNCHANGED <<experiment_mode, session>>

\* Lines 162-171: the dialogue page.
RunDialogue ==
  /\ RunningAgent /\ 1 <= turn_count /\ turn_count < RecommendTurn
  /\ WaitAgent({"chat_input"})
  /\ llm_log' = <<>>
  /\ UNCHANGED <<agent, experiment_mode, session>>

\* Lines 172-222: a message is sent. The user message is stored first; the
\* planner call, plan.get and the responder call may each raise, which ends
\* the run where it is.
SendMessage(user_input, plan_raises, plan_response, reply_raises, reply_response) ==
  /\ PressedAgent("chat_input") /\ 1 <= turn_count /\ turn_count < RecommendTurn
  /\ LET history == Append(chat_history, Message("user", user_input, None))
         plan == invoke(plan_raises, plan_response)
         action == DictGet(plan.value.v, "action", "ask_more")
         reply == invoke(reply_raises, reply_response)
         agent_type == IF action = "answer" THEN "Respond (Answer)"
                                            ELSE "Respond (Guidance)"
     IN  IF plan.raised \/ plan.value.t # "dict"
           THEN /\ chat_history' = history
                /\ llm_log' = <<LogEntry("planner", plan, history)>>
                /\ WaitAgent({"chat_input"})
                /\ UNCHANGED turn_count
           ELSE /\ llm_log' = <<LogEntry("planner", plan, history),
                                LogEntry(IF action = "answer" THEN "answer" ELSE "guidance",
                                         reply, history)>>
                /\ IF reply.raised
                     THEN /\ chat_history' = history
                          /\ WaitAgent({"chat_input"})
                          /\ UNCHANGED turn_count
                     ELSE /\ chat_history' =
                               Append(history,
                                      Message("assistant", reply.value.v, Some(agent_type)))
                          /\ turn_count' = turn_count + 1
                          /\ IF turn_count' >= RecommendTurn
                               THEN Rerun
                               ELSE WaitAgent({"chat_input"})
  /\ UNCHANGED <<experiment_mode, session, liked_movie, disliked_movie>>

\* Lines 239-260: the stored recommendation is rendered with rec.get when
\* it is truthy, and the restart button after it.
RecommendButtons(rec) ==
  IF Truthy(rec) /\ rec[1].t = "dict" THEN {"restart_agent"} ELSE {}

\* Lines 225-260: the recommendation page.
RunRecommend(raises, response) ==
  /\ RunningAgent /\ turn_count >= RecommendTurn
  /\ IF ~Truthy(recommendation)
       THEN LET rec_result == invoke(raises, response)
            IN  /\ llm_log' = <<LogEntry("recommend", rec_result, chat_history)>>
                /\ IF rec_result.raised
                     THEN /\ WaitAgent({})
                          /\ UNCHANGED recommendation
                     ELSE /\ recommendation' = Some(rec_result.value)
                          /\ WaitAgent(RecommendButtons(recommendation'))
       ELSE /\ llm_log' = <<>>
            /\ WaitAgent(RecommendButtons(recommendation))
            /\ UNCHANGED recommendation
  /\ UNCHANGED <<agent, experiment_mode, step, intake, personas, processing, scoring,
                 pending, used_scale_indices, dialogue, audit, final_profile, qa_pairs>>

\* Lines 256-260: every key but experiment_mode is deleted.
ClickRestartAgent ==
  /\ PressedAgent("restart_agent")
  /\ SessionDefaults
  /\ AgentDefaults
  /\ Rerun
  /\ llm_log' = <<>>
  /\ UNCHANGED experiment_mode

NextAgent ==
  \/ RunTurn0
  \/ \E l_mov \in LikedMovieInputs, d_mov \in DislikedMovieInputs,
        raises \in BOOLEAN, response \in RespondResponses :
       SubmitInitForm(l_mov, d_mov, raises, response)
  \/ RunDialogue
  \/ \E user_input \in ChatInputs,
        plan_raises \in BOOLEAN, plan_response \in PlannerResponses,
        reply_raises \in BOOLEAN, reply_response \in RespondResponses :
       Len(chat_history) + 2 <= MaxChatLen
         /\ SendMessage(user_input, plan_raises, plan_response,
                        reply_raises, reply_response)
  \/ \E raises \in BOOLEAN, response \in RecommendAgentResponses :
       RunRecommend(raises, response)
  \/ ClickRestartAgent

Next ==
  \/ RunApp
  \/ \E m \in {"choose_A", "choose_B"} : ChooseSystem(m)
  \/ ClickRestart
  \/ RunStep1
  \/ \E liked_text \in LikedInputs, disliked_text \in DislikedInputs :
       ClickStart(liked_text, disliked_text)
  \/ RunStep2
  \/ ClickToAnalysis
  \/ ClickRegenerate
  \/ ClickGenerate
  \/ ClickSample
  \/ RunStep3
  \/ ClickToQuestions
  \/ ClickReanalyze
  \/ ClickBack
  \/ ClickStartAnalysis
  \/ RunStep4
  \/ ClickRecommend4
  \/ \E choice \in FlowChoices :
       Len(questions_asked) < MaxQuestions /\ ClickSubmit(choice)
  \/ Len(used_scale_indices) < MaxDiscardDepth /\ ClickChange
  \/ RunStep5
  \/ ClickRecommend5
  \/ ClickNextQuestion
  \/ RunStep6
  \/ ClickFaq
  \/ ClickRegenerateRecommendation
  \/ ClickReport6
  \/ RunStep7
  \/ ClickRestartAll
  \/ ClickReport7
  \/ ClickBackToRecommendation
  \/ NextAgent

Spec == Init /\ [][Next]_vars

\* System B on its own, from the run that follows the choice of the system.
InitAgent ==
  /\ experiment_mode = Some("B")
  /\ step = 1
  /\ user_profiles = <<>>
  /\ quantitative_analysis = <<>>
  /\ liked_input = <<>>
  /\ disliked_input = <<>>
  /\ liked_movies = <<>>
  /\ disliked_movies = <<>>
  /\ questions_asked = <<>>
  /\ answers_given = <<>>
  /\ current_question = ""
  /\ current_scale = ""
  /\ final_profile = None
  /\ recommendation = None
  /\ qa_pairs = <<>>
  /\ elimination_history = <<>>
  /\ processing = FALSE
  /\ profiles_generated = FALSE
  /\ analysis_completed = FALSE
  /\ elimination_completed = FALSE
  /\ used_scale_indices = <<>>
  /\ current_options = EmptyDict
  /\ pc = "run"
  /\ shown = {}
  /\ llm_log = <<>>
  /\ AgentInit

SpecAgent == InitAgent /\ [][NextAgent]_vars

\* ------------------------------------------- the loop of steps 4 and 5
\* The question and elimination loop on its own, with a wider range of
\* oracle answers than the whole flow carries.  It starts in the session
\* ClickToQuestions leaves behind: the personas of one generation, scored
\* by one analysis, nothing asked yet.
MaxLoopProfiles == 3
MaxLoopRounds == 2

LoopAnalysisResponses ==
  { AnalysisDict(IntList(<<2, 9>>), TextList(2)),
    AnalysisDict(IntList(<<9, 9, 4>>), TextList(3)) }

LoopQuestionResponses ==
  [d \in Scales |-> { QuestionDict(QuestionText[d + 1]), [t |-> "list", v |-> <<>>] }]

LoopChoices == {1}

\* An id of a present persona or of none, an id that is no integer, an
\* object without eliminated_id, and a list in place of the object.
LoopEliminationResponses ==
  {EliminationDict(IntId(i), "oracle_reason") : i \in 1..(MaxLoopProfiles + 1)}
    \cup { EliminationDict([t |-> "text", v |-> "abc"], "oracle_reason"),
           [t |-> "dict", v |-> [reason |-> "oracle_reason"]],
           [t |-> "list", v |-> <<>>] }

\* The session at the entry of the loop, the personas scored by these
\* answers of the scoring oracle.
LoopEntry(responses) ==
  /\ experiment_mode = Some("A")
  /\ step = 4
  /\ \E k \in 1..MaxLoopProfiles :
       user_profiles = BuildProfiles(PersonaList(k).v).profiles
  /\ \E outcomes \in [DOMAIN user_profiles -> {0} \X responses] :
       quantitative_analysis = AnalyzeAll(user_profiles, outcomes)
  /\ liked_input = <<"a">>
  /\ disliked_input = <<>>
  /\ liked_movies = <<"a">>
  /\ disliked_movies = <<>>
  /\ questions_asked = <<>>
  /\ answers_given = <<>>
  /\ current_question = ""
  /\ current_scale = ""
  /\ final_profile = None
  /\ recommendation = None
  /\ qa_pairs = <<>>
  /\ elimination_history = <<>>
  /\ processing = FALSE
  /\ profiles_generated = TRUE
  /\ analysis_completed = TRUE
  /\ elimination_completed = FALSE
  /\ used_scale_indices = <<>>
  /\ current_options = EmptyDict
  /\ pc = "run"
  /\ shown = {}
  /\ llm_log = <<>>
  /\ AgentInit

InitLoop == LoopEntry(LoopAnalysisResponses)

LoopStep4 == Step4(LoopQuestionResponses)
LoopStep5 == Step5(LoopEliminationResponses)

NextLoop ==
  \/ LoopStep4
  \/ ClickRecommend4
  \/ \E choice \in LoopChoices :
       Len(questions_asked) < MaxLoopRounds /\ ClickSubmit(choice)
  \/ Len(used_scale_indices) < MaxDiscardDepth /\ ClickChange
  \/ LoopStep5
  \/ ClickRecommend5
  \/ ClickNextQuestion

SpecLoop == InitLoop /\ [][NextLoop]_vars

\* ------------------------------------------------- the scoring of step 3
\* Step 3 on its own, with the scoring oracle answering in every shape the
\* normalisation distinguishes.  It starts in the session ClickStartAnalysis
\* leaves behind: one persona, processing set.

\* One entry of a scores list: integers inside and outside 1..10, floats
\* (in tenths), a numeric string, a bool, text and null.
ScoreEntries ==
  { [t |-> "int", v |-> -3], [t |-> "int", v |-> 1], [t |-> "int", v |-> 10],
    [t |-> "int", v |-> 11], [t |-> "float", v |-> 79], [t |-> "float", v |-> -5],
    [t |-> "numstr", v |-> 8], [t |-> "bool", v |-> TRUE],
    [t |-> "text", v |-> "high"], [t |-> "null", v |-> 0] }

\* Scores lists: every list of up to two entries, and lists of NumScales - 1,
\* NumScales and NumScales + 1 equal entries.
ScoreLists ==
  { <<>> } \cup { <<e>> : e \in ScoreEntries }
    \cup { <<e, f>> : e \in ScoreEntries, f \in ScoreEntries }
    \cup { Repeat(e, n) : e \in ScoreEntries, n \in (NumScales - 1)..(NumScales + 1) }

\* The "scores" field: a list, an object (its values are taken), a string
\* of digits, or a number.
ScoreFields ==
  { [t |-> "list", v |-> l] : l \in ScoreLists }
    \cup { [t |-> "dict", v |-> <<[t |-> "int", v |-> 0], [t |-> "text", v |-> "x"]>>],
           [t |-> "str", v |-> Repeat([t |-> "numstr", v |-> 9], NumScales + 1)],
           [t |-> "int", v |-> 7] }

\* The "explanations" field: lists of several lengths, an object, a string.
ExplanationFields ==
  { TextList(n) : n \in {0, 2, NumScales, NumScales + 1} }
    \cup { [t |-> "dict", v |-> Repeat("oracle_detail", 3)],
           [t |-> "str", v |-> "oracle_detail"] }

ScoreResponses ==
  { AnalysisDict(sc, ex) : sc \in ScoreFields, ex \in ExplanationFields }
    \cup { [t |-> "dict", v |-> [scores |-> sc]] : sc \in ScoreFields }
    \cup { [t |-> "dict", v |-> [explanations |-> ex]] : ex \in ExplanationFields }
    \cup { [t |-> "dict", v |-> [comment |-> "text"]],
           [t |-> "list", v |-> <<>>], [t |-> "str", v |-> "text"] }

InitScore ==
  /\ experiment_mode = Some("A")
  /\ step = 3
  /\ user_profiles = BuildProfiles(PersonaList(1).v).profiles
  /\ quantitative_analysis = <<>>
  /\ liked_input = <<"a">>
  /\ disliked_input = <<>>
  /\ liked_movies = <<"a">>
  /\ disliked_movies = <<>>
  /\ questions_asked = <<>>
  /\ answers_given = <<>>
  /\ current_question = ""
  /\ current_scale = ""
  /\ final_profile = None
  /\ recommendation = None
  /\ qa_pairs = <<>>
  /\ elimination_history = <<>>
  /\ processing = TRUE
  /\ profiles_generated = TRUE
  /\ analysis_completed = FALSE
  /\ elimination_completed = FALSE
  /\ used_scale_indices = <<>>
  /\ current_options = EmptyDict
  /\ pc = "run"
  /\ shown = {}
  /\ llm_log = <<>>
  /\ AgentInit

ScoreStep3 == Step3(ScoreResponses)

NextScore ==
  \/ ScoreStep3
  \/ ClickReanalyze
  \/ ClickStartAnalysis

SpecScore == InitScore /\ [][NextScore]_vars

\* ------------------------------------------------ the selector of step 4
\* The loop with score vectors that make the selector's cases happen: all
\* columns constant, columns of equal variance at different levels, columns
\* of different variance.  The user may discard questions without
\* limit, so that every dimension gets used and the selector starts over.
MaxSelectRounds == 1

SelectAnalysisResponses ==
  { AnalysisDict(IntList(<<>>), TextList(0)),
    AnalysisDict(IntList(<<1, 2>>), TextList(2)),
    AnalysisDict(IntList(<<2, 3>>), TextList(2)) }

SelectQuestionResponses ==
  [d \in Scales |-> { QuestionDict(QuestionText[d + 1]) }]

SelectEliminationResponses ==
  { EliminationDict(IntId(1), "oracle_reason"),
    EliminationDict(IntId(MaxLoopProfiles), "oracle_reason") }

InitSelect == LoopEntry(SelectAnalysisResponses)

SelectStep4 == Step4(SelectQuestionResponses)
SelectStep5 == Step5(SelectEliminationResponses)

NextSelect ==
  \/ SelectStep4
  \/ ClickRecommend4
  \/ \E choice \in LoopChoices :
       Len(questions_asked) < MaxSelectRounds /\ ClickSubmit(choice)
  \/ ClickChange
  \/ SelectStep5
  \/ ClickRecommend5
  \/ ClickNextQuestion

SpecSelect == InitSelect /\ [][NextSelect]_vars

\* ------------------------------------------------- the intake of step 1
\* Step 1 on its own, with text areas holding every text of up to
\* MaxInputLen characters of titles, separators and blanks, and lists of up
\* to MaxTitles titles, with and without a repeated title.  It starts in the
\* session ChooseSystem leaves behind.
MaxInputLen == 3
MaxTitles == 11

InputAlphabet == {"a", "b", ",", " ", "\n"}
ShortTexts == UNION {[1..n -> InputAlphabet] : n \in 0..MaxInputLen}

TitleChars == <<"a", "b", "c", "d", "e", "f", "g", "h", "i", "j", "k", "l", "m">>

RECURSIVE CommaList(_)
\* the first n titles, separated by commas
CommaList(n) ==
  IF n = 1 THEN <<TitleChars[1]>> ELSE CommaList(n - 1) \o <<",", TitleChars[n]>>

LongTexts ==
  {CommaList(n) : n \in 1..MaxTitles}
    \cup {<<"b", "\n", " ">> \o CommaList(n) : n \in 1..MaxTitles}

IntakeLikedTexts == ShortTexts \cup LongTexts
\* The second text area holds a text of at most one character, or a list
\* of as many titles as are kept or one more.
IntakeDislikedTexts ==
  {t \in ShortTexts : Len(t) <= 1}
    \cup { CommaList(MaxDisliked), CommaList(MaxDisliked + 1),
           <<"b", "\n", " ">> \o CommaList(MaxDisliked + 1) }

InitIntake ==
  /\ experiment_mode = Some("A")
  /\ step = 1
  /\ user_profiles = <<>>
  /\ quantitative_analysis = <<>>
  /\ liked_input = <<>>
  /\ disliked_input = <<>>
  /\ liked_movies = <<>>
  /\ disliked_movies = <<>>
  /\ questions_asked = <<>>
  /\ answers_given = <<>>
  /\ current_question = ""
  /\ current_scale = ""
  /\ final_profile = None
  /\ recommendation = None
  /\ qa_pairs = <<>>
  /\ elimination_history = <<>>
  /\ processing = FALSE
  /\ profiles_generated = FALSE
  /\ analysis_completed = FALSE
  /\ elimination_completed = FALSE
  /\ used_scale_indices = <<>>
  /\ current_options = EmptyDict
  /\ pc = "run"
  /\ shown = {}
  /\ llm_log = <<>>
  /\ AgentInit

NextIntake ==
  \/ RunStep1
  \/ \E liked_text \in IntakeLikedTexts, disliked_text \in IntakeDislikedTexts :
       ClickStart(liked_text, disliked_text)
  \/ RunStep2

SpecIntake == InitIntake /\ [][NextIntake]_vars

\* ------------------------------------------ the persona generation of step 2
\* Step 2 on its own, with the persona oracle returning every list of up to
\* MaxGenerateList entries, each one of two objects or a string, or an
\* object in place of the list.  It starts in the session ClickStart leaves
\* behind.
MaxGenerateList == 6

GenerateEntries ==
  { [t |-> "dict", v |-> "persona_a"], [t |-> "dict", v |-> "persona_b"],
    [t |-> "str", v |-> "text"] }

GenerateResponses ==
  { [t |-> "list", v |-> l] :
      l \in UNION {[1..n -> GenerateEntries] : n \in 0..MaxGenerateList} }
    \cup { [t |-> "dict", v |-> EmptyDict] }

InitGenerate ==
  /\ experiment_mode = Some("A")
  /\ step = 2
  /\ user_profiles = <<>>
  /\ quantitative_analysis = <<>>
  /\ liked_input = <<"a">>
  /\ disliked_input = <<>>
  /\ liked_movies = <<"a">>
  /\ disliked_movies = <<>>
  /\ questions_asked = <<>>
  /\ answers_given = <<>>
  /\ current_question = ""
  /\ current_scale = ""
  /\ final_profile = None
  /\ recommendation = None
  /\ qa_pairs = <<>>
  /\ elimination_history = <<>>
  /\ processing = FALSE
  /\ profiles_generated = FALSE
  /\ analysis_completed = FALSE
  /\ elimination_completed = FALSE
  /\ used_scale_indices = <<>>
  /\ current_options = EmptyDict
  /\ pc = "run"
  /\ shown = {}
  /\ llm_log = <<>>
  /\ AgentInit

GenerateStep2 == Step2(GenerateResponses)

NextGenerate ==
  \/ GenerateStep2
  \/ ClickGenerate
  \/ ClickRegenerate
  \/ ClickSample

SpecGenerate == InitGenerate /\ [][NextGenerate]_vars

\* ------------------------------------------------------------- claims
\* The profile_ids of a list of personas or of score vectors.
Ids(xs) == {xs[i].profile_id : i \in DOMAIN xs}

\* The last script run called the oracle of this kind.
Asked(kind) == llm_log # <<>> /\ llm_log[1].kind = kind

\* C1: every elimination round, that is every run of step 5 with more than
\* one persona and elimination_completed false, removes exactly one persona
\* whatever the oracle does: the population goes from k to k - 1.
C1_ExactlyOneRemoved ==
  [][ (Running(5) /\ Len(user_profiles) > 1 /\ ~elimination_completed)
        => Len(user_profiles') = Len(user_profiles) - 1 ]_vars

\* A completed round that removed none of the MaxLoopProfiles personas.
C1_RoundWithoutRemoval ==
  /\ Asked("elimination") /\ elimination_completed
  /\ Len(elimination_history) = 1
  /\ Len(user_profiles) = MaxLoopProfiles

\* C2: once scoring has completed, user_profiles and quantitative_analysis
\* hold the same set of profile_ids in every state, also after an
\* elimination through the oracle-failure fallback, so the question
\* selector never reads mismatched sets.
C2_Lockstep ==
  analysis_completed => Ids(user_profiles) = Ids(quantitative_analysis)

\* The selector has run on score vectors of personas that are gone.
C2_SelectorSeesOrphan ==
  Asked("question") /\ Ids(user_profiles) # Ids(quantitative_analysis)

\* C3: the population shrinks by exactly one with every elimination round
\* the loop records, whatever the oracle answers, so that the loop entered
\* with k personas is down to a single one after exactly k - 1 rounds: no
\* step changes the population and the number of recorded rounds together.
C3_OnePersonaPerRound ==
  [][Len(user_profiles') + Len(elimination_history')
       = Len(user_profiles) + Len(elimination_history)]_vars

\* More than one persona is left after as many rounds as bring the largest
\* population the loop is entered with down to one.
C3_RoundsOutnumberRemovals ==
  /\ Len(elimination_history) = MaxLoopProfiles - 1
  /\ Len(user_profiles) > 1

\* C4: final_profile is set only while the population holds exactly one
\* persona, and is that persona; the recommendation oracle is called only
\* with final_profile set.
C4_FinalProfileIsSoleSurvivor ==
  /\ final_profile # None =>
       Len(user_profiles) = 1 /\ final_profile = Some(user_profiles[1])
  /\ Asked("recommendation") => final_profile # None

\* The recommendation oracle was called for the survivor of an elimination.
C4_RecommendedForSurvivor ==
  /\ Asked("recommendation") /\ final_profile # None
  /\ elimination_history # <<>>

\* C5: with exactly one persona left, a run of step 4 or 5 selects no
\* dimension, calls no oracle, appends no elimination record and removes
\* nothing, and the only step left is the one to the recommendation; the
\* population is never empty.
C5_SinglePersonaIsFinal ==
  [][ /\ user_profiles' # <<>>
      /\ (step \in {4, 5} /\ Len(user_profiles) = 1) =>
           /\ llm_log' = <<>>
           /\ UNCHANGED <<user_profiles, quantitative_analysis, used_scale_indices,
                          pending, dialogue, elimination_history>>
           /\ step' \in {step, 6}
           /\ step' = 6 => final_profile' = Some(user_profiles[1]) ]_vars

\* The survivor of an elimination, waiting at step 5 with the recommend
\* button as the only way on.
C5_SoleSurvivorWaits ==
  /\ step = 5 /\ pc = "idle" /\ shown = {"recommend", "restart"}
  /\ Len(user_profiles) = 1 /\ elimination_history # <<>>

\* The answer to the last elimination call named an id that int() rejects.
NonIntegerId ==
  /\ Asked("elimination") /\ ~llm_log[1].raised /\ llm_log[1].value.t = "dict"
  /\ "eliminated_id" \in DOMAIN llm_log[1].value.v
  /\ PyInt(llm_log[1].value.v.eliminated_id).raised

\* C6: when the oracle names an id that is no integer ("abc"), the round
\* removes the first persona of the current population, whoever was
\* eliminated before, and the record carries the fallback reason, not the
\* oracle's.
C6_NonIntegerIdRemovesFirst ==
  [][ NonIntegerId' =>
        /\ user_profiles' = Tail(user_profiles)
        /\ Last(elimination_history', [reason |-> NA]).reason
             # DictGet(llm_log'[1].value.v, "reason", DefaultReason) ]_vars

\* A round answered with "abc" once persona 1 is gone: nobody is removed.
C6_NonIntegerIdRemovesNobody ==
  /\ NonIntegerId /\ elimination_completed
  /\ Len(elimination_history) = 2
  /\ 1 \notin Ids(user_profiles) /\ Len(user_profiles) = MaxLoopProfiles - 1

\* The last elimination call raised after its retries, or returned
\* something that is not an object.
OracleFailed ==
  Asked("elimination") /\ (llm_log[1].raised \/ llm_log[1].value.t # "dict")

\* C7: when the elimination call fails or returns no object, the round
\* still completes: the first persona in the current order is removed, one
\* record naming its profile_id is appended, elimination_completed is set,
\* and the next run offers the next question or the recommendation.
C7_FailureRemovesFirst ==
  [][ /\ OracleFailed' =>
           /\ user_profiles' = Tail(user_profiles)
           /\ \E r \in Range(elimination_history') :
                /\ elimination_history' = Append(elimination_history, r)
                /\ r.eliminated_id = user_profiles[1].profile_id
           /\ elimination_completed' /\ step' = 5 /\ pc' = "run"
      /\ (Running(5) /\ elimination_completed) =>
           shown' \cap {"next_question", "recommend"} # {} ]_vars

\* A round that went through the fallback.
C7_FallbackTaken ==
  /\ OracleFailed /\ llm_log[1].raised /\ elimination_completed
  /\ step = 5 /\ pc = "run"

\* The run of step 4 that this step is has put a question to the oracle.
SelectorRan == step = 4 /\ pc = "run" /\ Asked("question")'

\* The dimension the selector chose in this step.
Selected == llm_log[1].inputs.scale

\* C8: the selector never chooses a dimension of used_scale_indices while one
\* of the 7 dimensions is unused, and adds its choice to the list; when all 7
\* are used it starts the list over within the same call and chooses among
\* all 7, so that the list holds the choice alone.
C8_NeverReselectsUsed ==
  [][SelectorRan =>
       IF Range(used_scale_indices) # Scales
         THEN /\ Selected' \notin Range(used_scale_indices)
              /\ used_scale_indices' = Append(used_scale_indices, Selected')
         ELSE /\ Selected' = ArgMax(Variances(quantitative_analysis))
              /\ used_scale_indices' = <<Selected'>>]_vars

\* The selector has started over: a question was answered, which leaves the
\* list of used dimensions as it is, and the list holds one dimension again.
C8_StartedOver ==
  /\ Asked("question")
  /\ questions_asked # <<>>
  /\ Len(used_scale_indices) = 1

\* n * n times the variance of a column of n scores, in exact arithmetic
ExactVariance(col) ==
  Len(col) * SumSeq([i \in DOMAIN col |-> col[i] * col[i]]) - SumSeq(col) * SumSeq(col)

\* The dimensions the selector chooses among.
Eligible(used) == IF Range(used) = Scales THEN Scales ELSE Scales \ Range(used)

\* C9: the selector chooses the lowest index among the dimensions not
\* excluded whose variance over the current score vectors is maximal; when
\* all variances tie on the first round it chooses dimension 0.
C9_LowestIndexOfMaximalVariance ==
  [][SelectorRan =>
       /\ Selected' \in Eligible(used_scale_indices)
       /\ \A d \in Eligible(used_scale_indices) :
            LET mine  == ExactVariance(Column(quantitative_analysis, Selected'))
                other == ExactVariance(Column(quantitative_analysis, d))
            IN  other < mine \/ (other = mine /\ Selected' <= d)]_vars

\* Dimensions 0 and 1 have the same variance, none is used, and the selector
\* has chosen dimension 1.
C9_LaterOfTwoEqualChosen ==
  /\ Asked("question")
  /\ used_scale_indices = <<1>>
  /\ ExactVariance(Column(quantitative_analysis, 0))
       = ExactVariance(Column(quantitative_analysis, 1))

\* In the last analysis run the oracle gave persona i an object whose
\* "scores" is a list, or an object whose values are taken as the list.
ScoresGiven(i) ==
  /\ ~llm_log[i].raised /\ llm_log[i].value.t = "dict"
  /\ "scores" \in DOMAIN llm_log[i].value.v
  /\ llm_log[i].value.v.scores.t \in {"list", "dict"}

RawScores(i) == llm_log[i].value.v.scores.v

\* C10: every stored score vector has exactly 7 scores, each an integer in
\* 1..10, and exactly 7 explanations, whatever the oracle returned; of the
\* scores of a list the oracle gave, those beyond the seventh are dropped,
\* the missing ones are 5, a non-numeric one is 5 and an integer is clamped
\* to 1..10.
C10_WellFormedVectors ==
  /\ \A i \in DOMAIN quantitative_analysis :
       /\ Len(quantitative_analysis[i].scores) = NumScales
       /\ Len(quantitative_analysis[i].explanations) = NumScales
       /\ \A j \in 1..NumScales :
            quantitative_analysis[i].scores[j] \in MinScore..MaxScore
  /\ Asked("analysis") =>
       \A i \in DOMAIN quantitative_analysis : \A j \in 1..NumScales :
         ScoresGiven(i) =>
         LET raw    == RawScores(i)
             stored == quantitative_analysis[i].scores[j]
         IN  /\ j > Len(raw) => stored = DefaultScore
             /\ (j <= Len(raw) /\ raw[j].t \in {"text", "null"}) => stored = DefaultScore
             /\ (j <= Len(raw) /\ raw[j].t = "int") =>
                  stored = (IF raw[j].v < MinScore THEN MinScore
                            ELSE IF raw[j].v > MaxScore THEN MaxScore ELSE raw[j].v)

\* Eight scores of 11 were returned and seven scores of 10 are stored.
C10_LongListClamped ==
  /\ Asked("analysis") /\ ScoresGiven(1)
  /\ RawScores(1) = Repeat([t |-> "int", v |-> 11], NumScales + 1)
  /\ quantitative_analysis[1].scores = Repeat(MaxScore, NumScales)
  /\ Len(quantitative_analysis[1].explanations) = NumScales

\* The last script run was the scoring of step 3.
ScoringRan == Asked("analysis")

\* The scoring oracle failed for persona i or returned no object.
ScoringFailed(i) == llm_log[i].raised \/ llm_log[i].value.t # "dict"

\* C11: scoring stores one score vector per persona, in population order and
\* with that persona's profile_id; a persona whose oracle call failed or
\* returned no object gets 7 scores of 5 and 7 failure explanations, and
\* every other persona is scored from its own oracle result: the integers of
\* its scores list are stored, clamped to 1..10.
C11_OneVectorPerPersona ==
  ScoringRan =>
    /\ Len(quantitative_analysis) = Len(user_profiles)
    /\ Len(llm_log) = Len(user_profiles)
    /\ \A i \in DOMAIN user_profiles :
         /\ quantitative_analysis[i].profile_id = user_profiles[i].profile_id
         /\ llm_log[i].inputs = user_profiles[i]
         /\ ScoringFailed(i) =>
              /\ quantitative_analysis[i].scores = Repeat(DefaultScore, NumScales)
              /\ quantitative_analysis[i].explanations = Repeat(AnalysisFailed, NumScales)
         /\ (~ScoringFailed(i) /\ ScoresGiven(i) /\ llm_log[i].value.v.scores.t = "list") =>
              /\ quantitative_analysis[i].explanations # Repeat(AnalysisFailed, NumScales)
              /\ \A j \in 1..Min2(NumScales, Len(RawScores(i))) :
                   RawScores(i)[j].t = "int" =>
                     quantitative_analysis[i].scores[j]
                       = Max2(MinScore, Min2(MaxScore, RawScores(i)[j].v))

\* The oracle failed for the first persona and scored the second.
C11_SecondScoredAfterFailure ==
  /\ ScoringRan
  /\ Len(user_profiles) >= 2
  /\ llm_log[1].raised
  /\ ~ScoringFailed(2)
  /\ quantitative_analysis[1].scores = Repeat(DefaultScore, NumScales)
  /\ quantitative_analysis[2].scores[2] = 9

\* C12: whenever persona generation completes, that is profiles_generated
\* becomes true, the population holds between 1 and 5 personas, each with a
\* profile_id in 1..5 that no other persona has, whatever list the oracle
\* returned.
C12_OneToFivePersonas ==
  [][(~profiles_generated /\ profiles_generated') =>
       /\ Len(user_profiles') \in 1..MaxProfiles
       /\ \A i \in DOMAIN user_profiles' :
            /\ user_profiles'[i].profile_id \in 1..MaxProfiles
            /\ \A j \in DOMAIN user_profiles' :
                 user_profiles'[i].profile_id = user_profiles'[j].profile_id => i = j]_vars

\* Generation has completed on an empty list: no persona is stored.
C12_GeneratedNoPersona ==
  /\ Asked("profiles") /\ ~llm_log[1].raised
  /\ llm_log[1].value = [t |-> "list", v |-> <<>>]
  /\ profiles_generated
  /\ user_profiles = <<>>

\* The last run called the persona oracle, which returned a list whose
\* entries up to the fifth are objects.
GenerationSucceeded ==
  /\ Asked("profiles") /\ ~llm_log[1].raised
  /\ llm_log[1].value.t = "list"
  /\ \A i \in 1..Min2(MaxProfiles, Len(llm_log[1].value.v)) :
       llm_log[1].value.v[i].t = "dict"

\* C13: a successful generation from an oracle list of n entries stores
\* exactly min(5, n) personas, the entries at the front of the list in their
\* order, with the profile_ids 1, 2, ..., min(5, n).
C13_FrontOfListInOrder ==
  GenerationSucceeded =>
    /\ profiles_generated
    /\ Len(user_profiles) = Min2(MaxProfiles, Len(llm_log[1].value.v))
    /\ \A i \in DOMAIN user_profiles :
         /\ user_profiles[i].profile_id = i
         /\ user_profiles[i].basic_info = llm_log[1].value.v[i].v

\* A list of more than five entries, the sixth no object, was cut to five
\* personas that are not all alike.
C13_LongListCut ==
  /\ GenerationSucceeded
  /\ Len(llm_log[1].value.v) > MaxProfiles
  /\ llm_log[1].value.v[MaxProfiles + 1].t = "str"
  /\ Len(user_profiles) = MaxProfiles
  /\ user_profiles[1].basic_info # user_profiles[2].basic_info

\* C14: when the persona oracle call has failed, pressing the sample-data
\* button the failure handler offered sets the population to the two
\* fallback personas with profile_ids 1 and 2, marks profiles_generated and
\* schedules the run that shows them, from where the flow goes on to scoring.
C14_SampleButtonContinues ==
  [][(step = 2 /\ pc = "idle" /\ "sample" \in shown) =>
       /\ user_profiles' = SampleProfiles
       /\ profiles_generated'
       /\ ~processing'
       /\ pc' = "run"]_vars

\* The failure handler has offered the sample-data button, with processing
\* reset.
C14_SampleOfferedProcessingReset ==
  /\ step = 2 /\ pc = "idle" /\ "sample" \in shown
  /\ Asked("profiles") /\ llm_log[1].raised
  /\ ~processing

\* C15: the flow leaves step 1 only with a liked work recorded: whenever
\* step is 2 or more, liked_movies is not empty, whatever text was typed.
C15_LikedWorkRecorded == step >= 2 => liked_movies # <<>>

\* The flow is at step 2 on a text of separators, with no liked work.
C15_LeftIntakeWithoutLikedWork ==
  /\ step = 2
  /\ liked_input = <<",">>
  /\ liked_movies = <<>>

\* The pieces of a text between commas and newlines, each one stripped.
Pieces(text) == [i \in DOMAIN ReSplit(text) |-> Strip(ReSplit(text)[i])]

\* The position of the first piece of the text that is x.
FirstAt(text, x) ==
  CHOOSE i \in DOMAIN Pieces(text) :
    Pieces(text)[i] = x /\ \A j \in 1..(i - 1) : Pieces(text)[j] # x

\* `movies` holds pieces of the text, none empty and none twice, in the
\* order of their first occurrence, at most cap of them, and a piece that
\* is missing comes after the cap-th.
WellParsed(movies, text, cap) ==
  /\ Len(movies) <= cap
  /\ \A i \in DOMAIN movies :
       /\ movies[i] # <<>>
       /\ movies[i] \in Range(Pieces(text))
       /\ \A j \in DOMAIN movies :
            i < j => FirstAt(text, movies[i]) < FirstAt(text, movies[j])
  /\ \A x \in Range(Pieces(text)) \ ({<<>>} \cup Range(movies)) :
       /\ Len(movies) = cap
       /\ FirstAt(text, x) > FirstAt(text, movies[cap])

\* C16: after intake liked_movies has at most 10 entries and disliked_movies
\* at most 5, neither holds an empty string or two equal entries, the entries
\* are in the order of their first occurrence in the text, and the entries
\* beyond the cap are dropped from the end.
C16_CappedDistinctInOrder ==
  step = 2 =>
    /\ WellParsed(liked_movies, liked_input, MaxLiked)
    /\ WellParsed(disliked_movies, disliked_input, MaxDisliked)

\* Both lists were cut at their caps, the liked one from a text that
\* repeats a title.
C16_BothListsCut ==
  /\ step = 2
  /\ Len(liked_movies) = MaxLiked
  /\ Len(disliked_movies) = MaxDisliked
  /\ Len(ReSplit(liked_input)) > MaxLiked + 1
  /\ Len(ReSplit(disliked_input)) > MaxDisliked

\* ---------------------------------------------------------------- C17
\* A press of a restart button of system A: the one in the sidebar, or
\* the one on the follow-up Q&A page.
RestartPressed == ClickRestart \/ ClickRestartAll

\* C17: every restart deletes all session entities except
\* experiment_mode, which keeps its value: after the press every entity
\* of the session has its default, experiment_mode is what it was, and
\* the flow resumes at step 1 of the same system.
C17_RestartKeepsSystem ==
  [][RestartPressed => (SessionDefaults /\ experiment_mode' = experiment_mode)]_vars

\* The restart of the follow-up Q&A page has been pressed: the run that
\* served the press made the Q&A call, and the system assignment is gone.
C17_AssignmentLostByRestart ==
  /\ experiment_mode = None
  /\ step = 1
  /\ llm_log # <<>>
  /\ llm_log[1].kind = "qa"

\* ---------------------------------------------------------------- C18
\* The recommendation oracle was invoked by the script run that led to
\* the state.
RecommendationInvoked(log) == \E i \in DOMAIN log : log[i].kind = "recommendation"

\* C18: while a recommendation is stored, whatever value the oracle
\* returned for it, no script run invokes the recommendation oracle and
\* none replaces the stored value; it is only cleared, by the regenerate
\* button or by a restart.
C18_StoredRecommendationRedisplayed ==
  [][recommendation # None =>
       /\ ~RecommendationInvoked(llm_log')
       /\ recommendation' \in {recommendation, None}]_vars

\* The follow-up button of the recommendation page was pressed, and the
\* run that served the press invoked the recommendation oracle although
\* the page was showing a stored recommendation.
C18_OracleInvokedOnReentry ==
  /\ step = 7
  /\ pc = "run"
  /\ RecommendationInvoked(llm_log)

\* ------------------------------------------------- the gateway alone
\* safe_llm_call on its own, called with every pattern of failing
\* attempts: none, fewer than max_retries, max_retries, and more than the
\* gateway ever gets to see.  llm_log keeps the calls, each with the
\* pattern it was made under.
MaxCalls == 3
CallFailures == 0..(max_retries + 1)
CallResponses == { [t |-> "dict", v |-> "movie"], [t |-> "list", v |-> "movies"] }

InitCall ==
  /\ experiment_mode = Some("A")
  /\ step = 1
  /\ user_profiles = <<>>
  /\ quantitative_analysis = <<>>
  /\ liked_input = <<>>
  /\ disliked_input = <<>>
  /\ liked_movies = <<>>
  /\ disliked_movies = <<>>
  /\ questions_asked = <<>>
  /\ answers_given = <<>>
  /\ current_question = ""
  /\ current_scale = ""
  /\ final_profile = None
  /\ recommendation = None
  /\ qa_pairs = <<>>
  /\ elimination_history = <<>>
  /\ processing = FALSE
  /\ profiles_generated = FALSE
  /\ analysis_completed = FALSE
  /\ elimination_completed = FALSE
  /\ used_scale_indices = <<>>
  /\ current_options = EmptyDict
  /\ pc = "run"
  /\ shown = {}
  /\ llm_log = <<>>
  /\ AgentInit

Call(failures, response) ==
  /\ Len(llm_log) < MaxCalls
  /\ llm_log' = Append(llm_log,
                       LogEntry("call", safe_llm_call(failures, response),
                                <<failures, response>>))
  /\ UNCHANGED <<agent, experiment_mode, session, pc, shown>>

NextCall == \E failures \in CallFailures, response \in CallResponses : Call(failures, response)

SpecCall == InitCall /\ [][NextCall]_vars

\* ---------------------------------------------------------------- C19
\* C19: a call makes between one and max_retries attempts.  When fewer
\* than max_retries leading attempts fail, it returns the response of the
\* first attempt that succeeds and has made exactly one attempt more than
\* failed; when max_retries or more would fail, it raises after exactly
\* max_retries attempts and returns nothing.
C19_RetriesThenRaises ==
  \A i \in DOMAIN llm_log :
    LET call == llm_log[i]
        failures == call.inputs[1]
        response == call.inputs[2]
    IN  /\ call.attempts \in 1..max_retries
        /\ failures < max_retries =>
             /\ ~call.raised
             /\ call.value = response
             /\ call.attempts = failures + 1
        /\ failures >= max_retries =>
             /\ call.raised
             /\ call.attempts = max_retries

\* One call succeeded on its second attempt and another failed on every
\* attempt.
C19_RetriedOnceAndGaveUpOnce ==
  /\ Len(llm_log) = 2
  /\ llm_log[1].inputs[1] = 1 /\ ~llm_log[1].raised /\ llm_log[1].attempts = 2
  /\ llm_log[2].inputs[1] = max_retries /\ llm_log[2].raised

\* ---------------------------------------------------------------- C20
\* The script run that led to the state called the oracle of `kind`, and
\* the call failed on every attempt or returned a value of the wrong
\* shape: personas come as a list, everything else as an object.
CallFailed(kind) ==
  \E i \in DOMAIN llm_log :
    /\ llm_log[i].kind = kind
    /\ \/ llm_log[i].raised
       \/ llm_log[i].value.t # (IF kind = "profiles" THEN "list" ELSE "dict")

OracleSteps == {"profiles", "analysis", "question", "elimination", "recommendation", "qa"}

\* A press other than a restart.
Proceed == Next /\ ~RestartPressed

\* C20: after a script run of system A in which an oracle call failed,
\* step is in 1..7, processing is false, the next run is scheduled or a
\* button other than restart responds, and the data of the step is there:
\* one score vector per persona after a failed scoring, a pending question
\* after a failed question generation, a recommendation on the page after
\* a failed recommendation, qa_pairs at step 7 after a failed follow-up.
C20_FailureLeavesValidState ==
  (\E kind \in OracleSteps : CallFailed(kind)) =>
    /\ step \in 1..7
    /\ ~processing
    /\ pc = "run" \/ ENABLED Proceed
    /\ CallFailed("analysis") =>
         /\ analysis_completed
         /\ Len(quantitative_analysis) = Len(user_profiles)
         /\ \A i \in DOMAIN user_profiles :
              quantitative_analysis[i].profile_id = user_profiles[i].profile_id
    /\ CallFailed("question") => step = 4 /\ QuestionPending
    /\ (CallFailed("recommendation") /\ pc = "idle") => step = 6 /\ recommendation # None
    /\ (CallFailed("qa") /\ step = 7) => qa_pairs # <<>>

\* The follow-up page is shown with the fallback pairs, after a flow in
\* which the recommendation was the default one.
C20_FallbacksCarriedTheFlow ==
  /\ step = 7
  /\ pc = "idle"
  /\ CallFailed("qa")
  /\ qa_pairs = FallbackQA
  /\ recommendation = Some(DefaultRecommendation)

\* ---------------------------------------------------------------- C21
\* C21: after a run of step 4 that generated a question, whatever the
\* oracle did, a non-empty question with its scale and two option texts
\* is pending, so that the next run shows it and waits for the answer
\* instead of selecting a dimension and calling the oracle again.
C21_QuestionPendingAfterGeneration ==
  Asked("question") =>
    /\ step = 4
    /\ QuestionPending
    /\ DictGet(current_options, "a", "") # ""
    /\ DictGet(current_options, "b", "") # ""

\* The oracle returned an object whose question is empty: nothing is
\* pending, and the selector has run a second time with no answer given
\* and no question discarded in between.
C21_SelectorRanTwiceUnasked ==
  /\ Asked("question")
  /\ ~llm_log[1].raised
  /\ llm_log[1].value = QuestionDict("")
  /\ current_question = ""
  /\ Len(used_scale_indices) = 2
  /\ questions_asked = <<>>

\* ---------------------------------------------------------------- C22
\* C22: the dimension the selector chose is the last entry of
\* used_scale_indices after the run, whether the question oracle answered
\* or failed: it was appended before the call, and the fallback path does
\* not take it back.
C22_DimensionRecordedDespiteFailure ==
  Asked("question") =>
    /\ used_scale_indices # <<>>
    /\ used_scale_indices[Len(used_scale_indices)] = Selected

\* The question call failed, the fallback question is pending and the
\* selected dimension is recorded.
C22_FallbackQuestionDimensionUsed ==
  /\ Asked("question")
  /\ llm_log[1].raised
  /\ current_question = FallbackQuestion
  /\ used_scale_indices[Len(used_scale_indices)] = Selected

\* ---------------------------------------------------------------- C23
\* An elimination round: a run of step 5 with more than one persona and
\* elimination_completed false.
EliminationRound == Running(5) /\ Len(user_profiles) > 1 /\ ~elimination_completed

\* C23: every elimination round appends exactly one record to
\* elimination_history, and the record's eliminated_id is the profile_id
\* of the one persona the round removed; no other step changes the
\* history, except that a restart empties it.
C23_RecordNamesRemovedPersona ==
  [][IF EliminationRound
       THEN \E record \in {elimination_history'[Len(elimination_history')]} :
              /\ elimination_history' = Append(elimination_history, record)
              /\ Ids(user_profiles) \ Ids(user_profiles') = {record.eliminated_id}
       ELSE \/ elimination_history' = elimination_history
            \/ elimination_history' = <<>> /\ step' = 1]_vars

\* A round is complete and its record names an id that none of the
\* personas given to the oracle carries: nobody was removed.
C23_RecordNamesAbsentPersona ==
  /\ Asked("elimination")
  /\ elimination_completed
  /\ elimination_history[Len(elimination_history)].eliminated_id
       \notin Ids(llm_log[1].inputs.profiles)
  /\ user_profiles = llm_log[1].inputs.profiles

\* ---------------------------------------------------------------- C24
\* The five answer texts the page offers for the pending options.
OfferedAnswers(opts) ==
  { <<"strong_A", DictGet(opts, "a", DefaultOptionA)>>,
    <<"lean_A", DictGet(opts, "a", DefaultOptionA)>>,
    <<"neutral">>,
    <<"lean_B", DictGet(opts, "b", DefaultOptionB)>>,
    <<"strong_B", DictGet(opts, "b", DefaultOptionB)>> }

\* An answer is submitted: the flow goes from step 4 to step 5.
Submitted == step = 4 /\ step' = 5

\* C24: a submission appends the pending question to questions_asked and
\* the text of one of the five offered choices to answers_given, clears
\* the pending question, scale and options, sets elimination_completed to
\* false and goes to step 5; the population, the score vectors,
\* used_scale_indices and elimination_history stay as they are.
C24_SubmissionAppendsOneExchange ==
  [][Submitted =>
       /\ QuestionPending
       /\ questions_asked' = Append(questions_asked, current_question)
       /\ \E answer \in OfferedAnswers(current_options) :
            answers_given' = Append(answers_given, answer)
       /\ current_question' = "" /\ current_scale' = "" /\ current_options' = EmptyDict
       /\ ~elimination_completed'
       /\ UNCHANGED <<user_profiles, quantitative_analysis, used_scale_indices,
                      elimination_history>>]_vars

\* A second answer is in, given after a completed elimination round, and
\* the next round is due.
C24_SecondAnswerSubmitted ==
  /\ step = 5
  /\ Len(questions_asked) = 2 /\ Len(answers_given) = 2
  /\ Len(elimination_history) = 1
  /\ ~elimination_completed
  /\ current_question = ""

\* ---------------------------------------------------------------- C25
\* C25: questions_asked and answers_given always have the same length;
\* a submission adds one entry at the end of each and keeps the earlier
\* entries, a restart empties both, and every other step leaves both as
\* they are.
C25_HistoryAppendOnly ==
  [][/\ Len(questions_asked') = Len(answers_given')
     /\ \/ UNCHANGED <<questions_asked, answers_given>>
        \/ /\ Submitted
           /\ Len(questions_asked') = Len(questions_asked) + 1
           /\ SubSeq(questions_asked', 1, Len(questions_asked)) = questions_asked
           /\ SubSeq(answers_given', 1, Len(answers_given)) = answers_given
        \/ /\ RestartPressed
           /\ questions_asked' = <<>> /\ answers_given' = <<>>]_vars

\* The follow-up page is reached with the exchanges of the question loop
\* still recorded.
C25_HistoryKeptToTheEnd ==
  /\ step = 7
  /\ Len(questions_asked) >= 1
  /\ Len(answers_given) = Len(questions_asked)

\* ---------------------------------------------------------------- C26
\* C26: every elimination round calls the oracle with the whole current
\* population and with the whole history: one pair per recorded exchange,
\* in order, each question with the answer given to it.
C26_WholeHistoryToOracle ==
  [][EliminationRound =>
       /\ Asked("elimination")'
       /\ llm_log'[1].inputs.profiles = user_profiles
       /\ ~llm_log'[1].inputs.history.placeholder
       /\ questions_asked # <<>>
       /\ llm_log'[1].inputs.history.pairs =
            [i \in DOMAIN questions_asked |->
               [question |-> questions_asked[i], answer |-> answers_given[i]]]]_vars

\* The second round was run on two exchanges, the first of them answered
\* before the first round.
C26_SecondRoundSawBothExchanges ==
  /\ Asked("elimination")
  /\ Len(elimination_history) = 2
  /\ Len(llm_log[1].inputs.history.pairs) = 2
  /\ llm_log[1].inputs.history.pairs[1].question = questions_asked[1]

\* ---------------------------------------------------------------- C27
\* Step 3 shows a completed analysis and offers the question loop.
AnalysisOffered == step = 3 /\ AnalysisShown

\* quantitative_analysis holds one score vector per persona of the
\* population, in its order.
VectorsMatch(analysis, profiles) ==
  /\ Len(analysis) = Len(profiles)
  /\ \A i \in DOMAIN profiles : analysis[i].profile_id = profiles[i].profile_id

\* C27: step 4 is entered from step 3 only from a shown analysis; an
\* analysis comes to be shown at step 3 only by a scoring run that called
\* the oracle once for every persona of the current population, and while
\* it is shown neither the population nor the score vectors change.  So
\* the vectors the question loop starts with were computed from the
\* population it starts with, whatever was regenerated or re-analysed
\* before.
C27_LoopEnteredWithFreshVectors ==
  [][/\ (step = 3 /\ step' = 4) =>
          /\ AnalysisOffered
          /\ VectorsMatch(quantitative_analysis', user_profiles')
          /\ UNCHANGED <<user_profiles, quantitative_analysis>>
     /\ (AnalysisOffered' /\ ~AnalysisOffered) =>
          /\ ScoringRan'
          /\ Len(llm_log') = Len(user_profiles')
          /\ \A i \in DOMAIN llm_log' : llm_log'[i].inputs = user_profiles'[i]
          /\ VectorsMatch(quantitative_analysis', user_profiles')
     /\ (AnalysisOffered /\ AnalysisOffered') =>
          UNCHANGED <<user_profiles, quantitative_analysis>>]_vars

\* Step 3 was entered again after the personas were regenerated: the
\* score vectors of the previous population are still stored, one more or
\* one fewer than the personas, and only the start of a new analysis is
\* offered.
C27_StaleVectorsNotOffered ==
  /\ step = 3
  /\ pc = "idle"
  /\ "start_analysis" \in shown /\ "to_questions" \notin shown
  /\ quantitative_analysis # <<>>
  /\ Len(quantitative_analysis) # Len(user_profiles)

\* ---------------------------------------------------------------- C28
DistinctIds(profiles) ==
  \A i, j \in DOMAIN profiles : i # j => profiles[i].profile_id # profiles[j].profile_id

C29_PopulationNeverRegenerated ==
  [][(profiles_generated /\ user_profiles # <<>>) =>
       \/ RestartPressed
       \/ /\ profiles_generated'
          /\ Range(user_profiles') \subseteq Range(user_profiles)
          /\ Len(user_profiles') <= Len(user_profiles)]_vars

\* A population of two was generated while the score vector of an earlier
\* population of one is still stored: the personas were regenerated after
\* coming back from the analysis, with no restart in between.
C29_SecondPopulationLarger ==
  /\ step = 2
  /\ Asked("profiles")
  /\ profiles_generated
  /\ Len(user_profiles) = 2
  /\ Len(quantitative_analysis) = 1

\* ---------------------------------------------------------------- C30
DistinctEntries(s) == \A i, j \in DOMAIN s : i # j => s[i] # s[j]

\* C30: used_scale_indices holds pairwise distinct indices of 0..6.  A
\* selector run adds exactly one index at its end, or, when the list
\* already holds all 7, starts it over with the one index it selects; a
\* restart empties it; nothing else changes it.
C30_UsedDimensionsGrowByOne ==
  [][/\ DistinctEntries(used_scale_indices')
     /\ Range(used_scale_indices') \subseteq Scales
     /\ Len(used_scale_indices') <= NumScales
     /\ \/ UNCHANGED used_scale_indices
        \/ /\ SelectorRan
           /\ IF Range(used_scale_indices) = Scales
                THEN Len(used_scale_indices') = 1
                ELSE /\ Len(used_scale_indices') = Len(used_scale_indices) + 1
                     /\ SubSeq(used_scale_indices', 1, Len(used_scale_indices))
                          = used_scale_indices
        \/ RestartPressed /\ used_scale_indices' = <<>>]_vars

\* All 7 dimensions are recorded as used, each once.
C30_AllSevenUsed ==
  /\ Len(used_scale_indices) = NumScales
  /\ Range(used_scale_indices) = Scales

\* ---------------------------------------------------------------- C31
\* C31: step stays in 1..7, and each step is entered only the way the flow
\* provides: step 2 from intake or back from step 3, step 3 with a
\* generated, non-empty population, step 4 from a completed scoring or
\* from step 5, step 5 by an answer submission, step 6 from step 4 or 5
\* with at most one persona left or back from step 7, step 7 from step 6
\* with a recommendation stored; step 1 is entered again only by a restart.
C31_StepsEnteredInOrder ==
  [][/\ step' \in 1..7
     /\ step' # step =>
          CASE step' = 1 -> RestartPressed
            [] step' = 2 -> step \in {1, 3}
            [] step' = 3 -> /\ step \in {2, 4}
                            /\ profiles_generated /\ user_profiles # <<>>
            [] step' = 4 -> \/ step = 3 /\ analysis_completed /\ quantitative_analysis # <<>>
                            \/ step = 5
            [] step' = 5 -> /\ step = 4
                            /\ Len(questions_asked') = Len(questions_asked) + 1
                            /\ Len(answers_given') = Len(answers_given) + 1
            [] step' = 6 -> \/ step \in {4, 5} /\ Len(user_profiles) <= 1
                            \/ step = 7
            [] step' = 7 -> step = 6 /\ recommendation' # None]_vars

\* The follow-up page is shown at the end of a flow that went through
\* scoring, a question, an elimination and the recommendation.
C31_WholeFlowWalked ==
  /\ step = 7
  /\ pc = "idle"
  /\ analysis_completed
  /\ Len(elimination_history) >= 1
  /\ Len(user_profiles) = 1
  /\ recommendation # None
  /\ qa_pairs # <<>>

\* ---------------------------------------------------------------- C32
\* C32: there are never more elimination records than submitted answers,
\* and while step 5 stands with elimination_completed true no step calls
\* the elimination oracle, removes a persona or appends a record.
C32_OneRoundPerAnswer ==
  [][/\ Len(elimination_history') <= Len(answers_given')
     /\ (step = 5 /\ elimination_completed) =>
          /\ ~Asked("elimination")'
          /\ UNCHANGED <<user_profiles, elimination_history>>]_vars

\* Step 5 has been rendered again after a completed round with personas
\* left: the result is shown with the next-question button.
C32_CompletedRoundRendered ==
  /\ step = 5
  /\ pc = "idle"
  /\ elimination_completed
  /\ "next_question" \in shown
  /\ Len(elimination_history) = Len(answers_given)

\* ---------------------------------------------------------------- C33
\* The pending question is discarded: it is gone and the flow stays at
\* step 4.
Discarded == step = 4 /\ pc = "idle" /\ QuestionPending /\ ~QuestionPending' /\ step' = 4

\* C33: a discard changes neither the exchanges, the population, the
\* score vectors, the elimination records nor used_scale_indices; and a
\* selector run that finds dimensions recorded, but not all 7, selects
\* another dimension than the one recorded last, which is the dimension
\* of the question just discarded or answered.
C33_DiscardKeepsDimensionUsed ==
  [][/\ Discarded =>
          UNCHANGED <<questions_asked, answers_given, user_profiles,
                      quantitative_analysis, elimination_history, used_scale_indices>>
     /\ (SelectorRan /\ used_scale_indices # <<>> /\ Range(used_scale_indices) # Scales) =>
          Selected' # used_scale_indices[Len(used_scale_indices)]]_vars

\* Three questions were generated and none answered: the third is pending
\* on a dimension different from those of the two discarded before it.
C33_ThirdQuestionAfterTwoDiscards ==
  /\ step = 4
  /\ QuestionPending
  /\ questions_asked = <<>>
  /\ Len(used_scale_indices) = 3
  /\ used_scale_indices[3] \notin {used_scale_indices[1], used_scale_indices[2]}

\* ---------------------------------------------------------------- C34
\* The run that led to the state called the recommendation oracle and the
\* call failed on every attempt.
RecommendationCallRaised(log) ==
  \E i \in DOMAIN log : log[i].kind = "recommendation" /\ log[i].raised

\* C34: a failed recommendation call stores the default recommendation
\* (the regenerate button, pressed in that very run, may clear it) and the
\* page offers the follow-up; and while the default recommendation is
\* stored no run calls the recommendation oracle or replaces it: it is
\* only cleared.
C34_DefaultRecommendationCached ==
  [][/\ RecommendationCallRaised(llm_log') =>
          /\ recommendation' \in {Some(DefaultRecommendation), None}
          /\ pc' = "idle" =>
               /\ recommendation' = Some(DefaultRecommendation)
               /\ "faq" \in shown'
     /\ recommendation = Some(DefaultRecommendation) =>
          /\ ~RecommendationInvoked(llm_log')
          /\ recommendation' \in {recommendation, None}]_vars

\* The follow-up was requested from a page showing the default
\* recommendation: the run that served the press made no oracle call and
\* the flow is at step 7 with the default still stored.
C34_FollowUpOnDefault ==
  /\ step = 7
  /\ pc = "run"
  /\ llm_log = <<>>
  /\ recommendation = Some(DefaultRecommendation)

\* ---------------------------------------------------------------- C35
\* The follow-up oracle answered with an object whose qa_pairs is a list.
QAWellShaped(call) ==
  /\ ~call.raised
  /\ call.value.t = "dict"
  /\ DictGet(call.value.v, "qa_pairs", [t |-> "list", v |-> <<>>]).t = "list"

\* C35: a run of step 7 leaves at most 3 pairs in qa_pairs: the first 3
\* pairs of the oracle's list when the oracle answered with an object
\* holding a list, the 3 fallback pairs when the call failed or the
\* result has another shape; the stored recommendation is not changed.
C35_ThreePairsOrFallback ==
  [][(step = 7 /\ Asked("qa")' /\ step' # 1) =>
       /\ Len(qa_pairs') <= MaxQAPairs
       /\ recommendation' = recommendation
       /\ IF QAWellShaped(llm_log'[1])
            THEN qa_pairs' =
                   Prefix(DictGet(llm_log'[1].value.v, "qa_pairs",
                                  [t |-> "list", v |-> <<>>]).v, MaxQAPairs)
            ELSE qa_pairs' = FallbackQA]_vars

\* The oracle put a text where the list of pairs belongs: qa_pairs holds
\* the first three characters of the text, and the page has stopped
\* before its buttons.
C35_TextStoredAsPairs ==
  /\ step = 7
  /\ pc = "idle"
  /\ qa_pairs = Prefix(QAChars, MaxQAPairs)
  /\ shown = {"restart"}

\* ---------------------------------------------------------------- C36
\* The number of user messages stored in a chat history.
UserMessages(history) ==
  Cardinality({i \in DOMAIN history : history[i].role = "user"})

\* A step that stored a user message together with the reply to it.
MessageProcessed ==
  /\ Len(chat_history') = Len(chat_history) + 2
  /\ SubSeq(chat_history', 1, Len(chat_history)) = chat_history
  /\ chat_history'[Len(chat_history) + 1].role = "user"
  /\ chat_history'[Len(chat_history) + 2].role = "assistant"

\* A script run that called the recommender of system B.
RecommenderInvoked == pc = "run" /\ Asked("recommend")'

\* What C36 says of the steps of turn_count, without the number of user
\* messages the recommender comes after.
TurnCountSteps ==
  /\ (turn_count' = 1 /\ turn_count # 1) =>
       /\ turn_count = 0
       /\ liked_movie' # ""
       /\ Len(chat_history') = 1
       /\ chat_history'[1].role = "assistant"
       /\ chat_history'[1].agent = Some("Respond (Guidance)")
  /\ (turn_count' # turn_count /\ turn_count' > 1) =>
       turn_count' = turn_count + 1 /\ MessageProcessed
  /\ MessageProcessed => turn_count' = turn_count + 1
  /\ RecommenderInvoked =>
       turn_count = RecommendTurn /\ recommendation = None

\* C36: in system B turn_count is always in 0..5; it becomes 1 only from 0,
\* with a non-empty liked movie stored and the first guidance question as
\* the only message; it increases by exactly one with every processed user
\* message and not otherwise; the recommender is invoked only at
\* turn_count 5, with exactly 4 user messages in the history and no
\* recommendation stored.
C36_TurnCountDrivesRecommender ==
  /\ [](turn_count \in 0..RecommendTurn)
  /\ [][/\ TurnCountSteps
        /\ RecommenderInvoked => UserMessages(chat_history) = RecommendTurn - 1]_vars

\* The recommender has run on a history of five user messages: one of them
\* was stored by a run whose planner or responder call failed.
C36_RecommenderAfterFiveMessages ==
  /\ turn_count = RecommendTurn
  /\ Asked("recommend")
  /\ UserMessages(chat_history) = RecommendTurn

\* ---------------------------------------------------------------- C37
\* C37: in every state of system B with turn_count >= 1, also after a
\* failed planner or responder call, chat_history has 2 * turn_count - 1
\* messages, the odd ones from the assistant and the even ones from the
\* user, so that every user message is followed by one reply.
C37_HistoryAlternates ==
  turn_count >= 1 =>
    /\ Len(chat_history) = 2 * turn_count - 1
    /\ \A i \in DOMAIN chat_history :
         chat_history[i].role = (IF i % 2 = 1 THEN "assistant" ELSE "user")

\* The planner call of the first message failed and the user sent the
\* message again: two user messages in a row, then the reply to the second.
C37_TwoUserMessagesInARow ==
  /\ turn_count = 2
  /\ Len(chat_history) = 4
  /\ chat_history[2].role = "user"
  /\ chat_history[3].role = "user"
  /\ chat_history[4].role = "assistant"

\* ---------------------------------------------------------------- C38
\* The page waits with the start button of step s on it.
StartOffered(s, button) == step = s /\ pc = "idle" /\ button \in shown

\* A script run that called the persona oracle or the scoring oracle.
OperationRan(kind) == pc = "run" /\ Asked(kind)'

\* C38: processing is true only while the run that follows a press of the
\* start button of step 2 or step 3 is scheduled: it becomes true only by
\* that press, in the step of the button; it is false when step 2 or
\* step 3 is entered from another step and after every run that called the
\* persona oracle or the scoring oracle, whatever the oracle did; and such
\* a run happens only with the flag set, in the step whose button set it.
C38_ProcessingOnlyWhileStarted ==
  /\ [](processing => pc = "run" /\ step \in {2, 3})
  /\ [][/\ (processing' /\ ~processing) =>
             /\ step' = step
             /\ StartOffered(2, "generate") \/ StartOffered(3, "start_analysis")
        /\ (step' \in {2, 3} /\ step' # step) => ~processing'
        /\ OperationRan("profiles") => step = 2 /\ processing /\ ~processing'
        /\ OperationRan("analysis") => step = 3 /\ processing /\ ~processing']_vars

\* The scoring has been started in step 3, after a generation that had set
\* and reset the flag in step 2.
C38_ScoringStarted ==
  /\ step = 3
  /\ processing
  /\ pc = "run"
  /\ profiles_generated
  /\ user_profiles # SampleProfiles

=============================================================================
